---- MODULE Spec2Model ----
(***************************************************************************)
(* Model of the ATS scoring engine of Resume_Matcher:                      *)
(*   apps/backend/app/services/ats_scoring_service.py                      *)
(*                                                                         *)
(* AtsScoringService.calculate_ats_score is modelled as a state machine    *)
(* whose steps are the statements of the method (validation, Criterion     *)
(* Scorer, aggregate score, Suggestion Generator, Response Structurer,     *)
(* the except handler, the return).  Python values are tagged records,     *)
(* strings are sequences of one-character strings, and scores are exact    *)
(* rationals [num, den] in lowest terms standing for the floats.           *)
(***************************************************************************)
EXTENDS Integers, Sequences, FiniteSets, TLC

(***************************************************************************)
(* Bounds of the model.                                                    *)
(***************************************************************************)
MaxEntries == 2
MaxBullets == 2
MaxThreads == 2
MaxCalls == 3

(***************************************************************************)
(* Python values.  k is the type tag and the second field the value;      *)
(* "absent" stands for a key that a dict does not hold (what dict.get     *)
(* turns into its default).                                                *)
(***************************************************************************)
Absent == [k |-> "absent"]
None == [k |-> "none"]
PyInt(n) == [k |-> "int", n |-> n]
PyStr(s) == [k |-> "str", s |-> s]
PyList(xs) == [k |-> "list", xs |-> xs]
PyDict(f) == [k |-> "dict", kv |-> f]
EmptyDict == PyDict([key \in {} |-> None])

\* dict.get(key): None when the key is missing
Get(d, key) == IF key \in DOMAIN d.kv THEN d.kv[key] ELSE None
\* dict.get(key, default)
GetOr(d, key, default) == IF key \in DOMAIN d.kv THEN d.kv[key] ELSE default
\* bool(x)
Truthy(x) ==
  CASE x.k = "none" -> FALSE
    [] x.k = "absent" -> FALSE
    [] x.k = "int" -> x.n # 0
    [] x.k = "str" -> Len(x.s) > 0
    [] x.k = "list" -> Len(x.xs) > 0
    [] x.k = "dict" -> DOMAIN x.kv # {}
IsStr(x) == x.k = "str"
IsList(x) == x.k = "list"
IsDict(x) == x.k = "dict"

(***************************************************************************)
(* Strings: character classes and the str methods the service uses.        *)
(***************************************************************************)
Digits == {"0", "1", "2", "3", "4", "5", "6", "7", "8", "9"}
LowerMap ==
  [A |-> "a", B |-> "b", C |-> "c", D |-> "d", E |-> "e", F |-> "f", G |-> "g",
   H |-> "h", I |-> "i", J |-> "j", K |-> "k", L |-> "l", M |-> "m", N |-> "n",
   O |-> "o", P |-> "p", Q |-> "q", R |-> "r", S |-> "s", T |-> "t", U |-> "u",
   V |-> "v", W |-> "w", X |-> "x", Y |-> "y", Z |-> "z"]
UpperLetters == DOMAIN LowerMap
LowerLetters == {LowerMap[c] : c \in UpperLetters}
\* \w and \s of the re module (ASCII part)
WordChars == UpperLetters \cup LowerLetters \cup Digits \cup {"_"}
Whitespace == {" ", "\n", "\t"}

LowerOf(c) == IF c \in UpperLetters THEN LowerMap[c] ELSE c
\* str.lower()
Lower(s) == [i \in 1..Len(s) |-> LowerOf(s[i])]

\* the pieces of s between the characters of Seps, empty pieces kept
SplitAt(s, Seps) ==
  LET IsSep(i) == s[i] \in Seps
      cut == SelectSeq([i \in 1..Len(s) |-> i], IsSep)
      n == Len(cut)
      lo(j) == IF j = 1 THEN 1 ELSE cut[j - 1] + 1
      hi(j) == IF j = n + 1 THEN Len(s) ELSE cut[j] - 1
  IN [j \in 1..(n + 1) |-> SubSeq(s, lo(j), hi(j))]
NonEmptyStr(t) == Len(t) > 0
\* str.split(): split on runs of whitespace, no empty pieces
SplitWs(s) == SelectSeq(SplitAt(s, Whitespace), NonEmptyStr)
\* str.split(" ") and str.split("\n"): empty pieces kept
SplitOn(s, c) == SplitAt(s, {c})
\* str.strip()
Strip(s) ==
  LET keep == {i \in 1..Len(s) : s[i] \notin Whitespace}
  IN IF keep = {} THEN <<>>
     ELSE SubSeq(s, CHOOSE a \in keep : \A b \in keep : a <= b,
                    CHOOSE a \in keep : \A b \in keep : a >= b)
\* str.rstrip(chars)
RStrip(s, chars) ==
  LET keep == {i \in 1..Len(s) : s[i] \notin chars}
  IN IF keep = {} THEN <<>>
     ELSE SubSeq(s, 1, CHOOSE a \in keep : \A b \in keep : a >= b)
\* sub occurs in s at position i
OccursAt(s, sub, i) ==
  /\ i >= 1
  /\ i + Len(sub) - 1 <= Len(s)
  /\ \A j \in 1..Len(sub) : s[i + j - 1] = sub[j]
\* sub in s
Contains(s, sub) == \E i \in 1..(Len(s) + 1) : OccursAt(s, sub, i)
\* str.endswith
EndsWith(s, suf) == Len(s) >= Len(suf) /\ OccursAt(s, suf, Len(s) - Len(suf) + 1)
\* \b between position i - 1 and position i of s (i in 1..Len(s)+1)
Boundary(s, i) ==
  LET before == i > 1 /\ s[i - 1] \in WordChars
      after == i <= Len(s) /\ s[i] \in WordChars
  IN before # after

RECURSIVE Join(_)
\* the characters of s as one string
Join(s) == IF Len(s) = 0 THEN "" ELSE Head(s) \o Join(Tail(s))

(***************************************************************************)
(* The attributes AtsScoringService.__init__ sets.                         *)
(***************************************************************************)
action_verbs_list ==
  {"accelerated", "accomplished", "achieved", "acted", "adapted", "added",
   "addressed", "administered", "advised", "allocated", "analyzed",
   "appraised", "approved", "arbitrated", "arranged", "assembled", "assessed",
   "assigned", "assisted", "attained", "audited", "authored", "balanced",
   "broadened", "budgeted", "calculated", "cataloged", "centralized",
   "chaired", "changed", "clarified", "classified", "coached", "collaborated",
   "collected", "communicated", "compiled", "completed", "composed",
   "computed", "conceptualized", "conceived", "concluded", "conducted",
   "consolidated", "constructed", "contracted", "controlled", "convinced",
   "coordinated", "corresponded", "counseled", "created", "critiqued",
   "customized", "defined", "delegated", "delivered", "demonstrated",
   "demystified", "derived", "designed", "determined", "developed", "devised",
   "diagnosed", "directed", "discovered", "dispatched", "documented",
   "drafted", "earned", "edited", "educated", "enabled", "encouraged",
   "engineered", "energized", "enhanced", "enlisted", "ensured",
   "established", "evaluated", "examined", "executed", "expanded",
   "expedited", "explained", "extracted", "fabricated", "facilitated",
   "familiarized", "fashioned", "forecasted", "formed", "formulated",
   "founded", "gained", "gathered", "generated", "guided", "handled",
   "headed", "identified", "illustrated", "impacted", "implemented",
   "improved", "increased", "influenced", "informed", "initiated",
   "inspected", "installed", "instituted", "instructed", "integrated",
   "interpreted", "interviewed", "introduced", "invented", "investigated",
   "launched", "lectured", "led", "liaised", "maintained", "managed",
   "marketed", "mastered", "maximized", "mediated", "minimized", "modeled",
   "moderated", "monitored", "motivated", "negotiated", "operated",
   "optimized", "orchestrated", "organized", "originated", "overhauled",
   "oversaw", "participated", "performed", "persuaded", "planned",
   "predicted", "prepared", "presented", "prioritized", "processed",
   "produced", "programmed", "projected", "promoted", "proposed", "proved",
   "provided", "publicized", "published", "purchased", "recommended",
   "reconciled", "recorded", "recruited", "redesigned", "reduced", "referred",
   "regulated", "rehabilitated", "reinforced", "remodeled", "reorganized",
   "repaired", "reported", "represented", "researched", "resolved",
   "retrieved", "reviewed", "revised", "revitalized", "rewrote", "scheduled",
   "screened", "selected", "served", "set goals", "shaped", "simplified",
   "sold", "solved", "spoke", "spearheaded", "specified", "standardized",
   "steered", "stimulated", "streamlined", "strengthened", "structured",
   "studied", "suggested", "summarized", "supervised", "supported",
   "surpassed", "surveyed", "synthesized", "systematized", "tabulated",
   "taught", "tested", "trained", "translated", "unified", "updated",
   "upgraded", "utilized", "validated", "verbalized", "verified",
   "visualized", "wrote"}
action_verbs_set == action_verbs_list
common_adverbs ==
  {"successfully", "effectively", "consistently", "significantly",
   "actively", "greatly", "strongly", "directly"}

\* number_pattern.search(s): every alternative consumes at least one digit
\* and the first alternative, \d+%?, matches at any digit
number_pattern_search(s) == \E i \in 1..Len(s) : s[i] \in Digits

\* email_pattern.match(s): [^@\s]+@[^@\s]+\.[^@\s]+ from the start of s
EmailChar(c) == c # "@" /\ c \notin Whitespace
email_pattern_match(s) ==
  \E i \in 2..Len(s) : \E j \in (i + 2)..(Len(s) - 1) :
    /\ s[i] = "@"
    /\ s[j] = "."
    /\ \A m \in 1..(j + 1) : m # i => EmailChar(s[m])

\* phone_pattern.search(s): a run of seven characters of [\d\s\-\+\(\).]
PhoneChars == Digits \cup Whitespace \cup {"-", "+", "(", ")", "."}
PhoneRunLen == 7
phone_pattern_search(s) ==
  \E i \in 1..(Len(s) - PhoneRunLen + 1) :
    \A m \in i..(i + PhoneRunLen - 1) : s[m] \in PhoneChars

\* passive_voice_pattern.search(s):
\*   \b(am|is|are|was|were|been|being)\s+\w+ed\b, IGNORECASE
AuxVerbs ==
  {<<"a", "m">>, <<"i", "s">>, <<"a", "r", "e">>,
   <<"w", "a", "s">>, <<"w", "e", "r", "e">>, <<"b", "e", "e", "n">>,
   <<"b", "e", "i", "n", "g">>}
passive_voice_pattern_search(s) ==
  \E aux \in AuxVerbs : \E i \in 1..Len(s) :
    /\ Boundary(s, i)
    /\ OccursAt(Lower(s), aux, i)
    /\ \E w \in (i + Len(aux) + 1)..Len(s) : \E z \in (w + 2)..Len(s) :
         /\ \A m \in (i + Len(aux))..(w - 1) : s[m] \in Whitespace
         /\ \A m \in w..z : s[m] \in WordChars
         /\ LowerOf(s[z - 1]) = "e"
         /\ LowerOf(s[z]) = "d"
         /\ Boundary(s, z + 1)

\* filler_words_pattern.search(s):
\*   \b(responsible for|duties included|assisted with|worked on|involved in)\b
FillerPhrases ==
  {<<"r", "e", "s", "p", "o", "n", "s", "i", "b", "l", "e", " ", "f", "o", "r">>,
   <<"d", "u", "t", "i", "e", "s", " ", "i", "n", "c", "l", "u", "d", "e", "d">>,
   <<"a", "s", "s", "i", "s", "t", "e", "d", " ", "w", "i", "t", "h">>,
   <<"w", "o", "r", "k", "e", "d", " ", "o", "n">>,
   <<"i", "n", "v", "o", "l", "v", "e", "d", " ", "i", "n">>}
filler_words_pattern_search(s) ==
  \E ph \in FillerPhrases : \E i \in 1..Len(s) :
    /\ Boundary(s, i)
    /\ OccursAt(Lower(s), ph, i)
    /\ Boundary(s, i + Len(ph))

\* the shapes of the date patterns; s is a stripped string, so $ is its end
AllDigits(s, lo, hi) == \A m \in lo..hi : s[m] \in Digits
IsYMD(s) ==
  /\ Len(s) = 10
  /\ AllDigits(s, 1, 4) /\ s[5] = "-" /\ AllDigits(s, 6, 7)
  /\ s[8] = "-" /\ AllDigits(s, 9, 10)
IsYM(s) == Len(s) = 7 /\ AllDigits(s, 1, 4) /\ s[5] = "-" /\ AllDigits(s, 6, 7)
IsMY(s) == Len(s) = 7 /\ AllDigits(s, 1, 2) /\ s[3] = "/" /\ AllDigits(s, 4, 7)
\* ^\w+\s+\d{4}$
IsMonthYear(s) ==
  \E a \in 1..(Len(s) - 5) :
    /\ \A m \in 1..a : s[m] \in WordChars
    /\ \A m \in (a + 1)..(Len(s) - 4) : s[m] \in Whitespace
    /\ AllDigits(s, Len(s) - 3, Len(s))
PresentWord == <<"p", "r", "e", "s", "e", "n", "t">>
\* date_format_pattern.match(s); the last alternative, Present, is anchored
\* by match() at the start only
date_format_pattern_match(s) ==
  \/ IsYMD(s)
  \/ IsYM(s)
  \/ IsMY(s)
  \/ IsMonthYear(s)
  \/ OccursAt(Lower(s), PresentWord, 1)

(***************************************************************************)
(* Numbers.  The scores are Python floats; the model holds them as exact   *)
(* rationals [num, den] in lowest terms with den > 0.                      *)
(***************************************************************************)
Abs(n) == IF n < 0 THEN -n ELSE n
RECURSIVE Gcd(_, _)
Gcd(a, b) == IF b = 0 THEN a ELSE Gcd(b, a % b)
Rat(n, d) ==
  LET g == Gcd(Abs(n), d)
  IN IF n = 0 THEN [num |-> 0, den |-> 1] ELSE [num |-> n \div g, den |-> d \div g]
Whole(n) == [num |-> n, den |-> 1]
RAdd(a, b) ==
  LET g == Gcd(a.den, b.den)
  IN Rat(a.num * (b.den \div g) + b.num * (a.den \div g), a.den * (b.den \div g))
RMul(a, b) ==
  LET g1 == Gcd(Abs(a.num), b.den)
      g2 == Gcd(Abs(b.num), a.den)
      h1 == IF g1 = 0 THEN 1 ELSE g1
      h2 == IF g2 = 0 THEN 1 ELSE g2
  IN Rat((a.num \div h1) * (b.num \div h2), (a.den \div h2) * (b.den \div h1))
RNeg(a) == [num |-> -a.num, den |-> a.den]
RSub(a, b) == RAdd(a, RNeg(b))
\* a / b for b > 0
RDiv(a, b) == RMul(a, [num |-> b.den, den |-> b.num])
RLt(a, b) == a.num * b.den < b.num * a.den
RLe(a, b) == a.num * b.den <= b.num * a.den
RMin(a, b) == IF RLt(b, a) THEN b ELSE a
RMax(a, b) == IF RLt(a, b) THEN b ELSE a
\* math.floor and math.ceil (\div rounds towards minus infinity)
Floor(a) == a.num \div a.den
Ceil(a) == -((-a.num) \div a.den)
\* round(): to the nearest integer, a tie to the even one
Round(a) ==
  LET f == Floor(a)
      twice == 2 * (a.num - f * a.den)
  IN IF twice < a.den THEN f
     ELSE IF twice > a.den THEN f + 1
     ELSE IF f % 2 = 0 THEN f ELSE f + 1
RECURSIVE RSum(_)
\* sum() of a sequence of numbers
RSum(xs) == IF Len(xs) = 0 THEN Whole(0) ELSE RAdd(Head(xs), RSum(Tail(xs)))

RECURSIVE Concat(_)
\* the concatenation of a sequence of sequences
Concat(ss) == IF Len(ss) = 0 THEN <<>> ELSE Head(ss) \o Concat(Tail(ss))
\* the number of positions of xs that satisfy Test
Count(xs, Test(_)) == Cardinality({i \in 1..Len(xs) : Test(xs[i])})
\* Python's "a or b"
Or(a, b) == IF Truthy(a) THEN a ELSE b

(***************************************************************************)
(* Criterion Scorer: AtsScoringService._calculate_criteria_scores.         *)
(***************************************************************************)
CriterionNames ==
  {"section_completeness", "contact_info_quality", "profile_summary_quality",
   "keyword_density", "experience_details_present", "action_verbs",
   "quantifiable_results", "bullet_conciseness", "grammar_indicators",
   "date_consistency"}

\* the criteria_scores literal the scorer starts from
InitialCriteria ==
  [section_completeness |-> [score |-> Whole(0), max |-> Whole(15), passed |-> <<>>],
   contact_info_quality |-> [score |-> Whole(0), max |-> Whole(10), passed |-> <<>>],
   profile_summary_quality |->
     [score |-> Whole(0), max |-> Whole(5), present |-> FALSE, length |-> 0],
   keyword_density |->
     [score |-> Whole(0), max |-> Whole(15), passed |-> 0, keywords_found |-> {}],
   experience_details_present |->
     [score |-> Whole(0), max |-> Whole(10), passed |-> <<>>, total_entries |-> 0],
   action_verbs |->
     [score |-> Whole(0), max |-> Whole(15), passed |-> 0, total_bullets |-> 0],
   quantifiable_results |->
     [score |-> Whole(0), max |-> Whole(15), passed |-> 0, total_bullets |-> 0],
   bullet_conciseness |->
     [score |-> Whole(0), max |-> Whole(10), passed |-> 0, total_bullets |-> 0],
   grammar_indicators |->
     [score |-> Whole(0), max |-> Whole(5), passive_count |-> 0,
      filler_count |-> 0, total_bullets |-> 0],
   date_consistency |->
     [score |-> Whole(0), max |-> Whole(5), consistent |-> TRUE,
      formats_found |-> {}, has_dates |-> FALSE]]

\* 1. Section Completeness
sections_to_check ==
  << <<"Personal Data", "Personal Data">>, <<"Profile Summary", "Profile Summary">>,
     <<"Experiences", "Experience">>, <<"Education", "Education">>,
     <<"Skills", "Skills">>, <<"Projects", "Projects">> >>
\* the test that counts no list and no dict, empty or not
is_present_and_scalar(content) ==
  /\ content.k # "none"
  /\ ~(IsList(content) \/ IsDict(content))
is_present_and_non_empty(content) ==
  /\ content.k # "none"
  /\ (~(IsList(content) \/ IsDict(content)) \/ Truthy(content))
SectionCompleteness(data, item) ==
  LET points_per_section ==
        IF Len(sections_to_check) > 0 /\ RLt(Whole(0), item.max)
        THEN RDiv(item.max, Whole(Len(sections_to_check))) ELSE Whole(0)
      Present(sec) == is_present_and_non_empty(Get(data, sec[1]))
      found == SelectSeq(sections_to_check, Present)
      present_sections == [i \in 1..Len(found) |-> found[i][2]]
      total == RMul(Whole(Len(found)), points_per_section)
  IN [item EXCEPT !.score = RMin(total, item.max), !.passed = present_sections]

\* 2. Contact Info Quality
\* the three checks as one if/elif chain: only the first detail found counts
ContactInfoQualityFirstOnly(data, item) ==
  LET personal_data == GetOr(data, "Personal Data", EmptyDict)
      email == Get(personal_data, "email")
      phone == Get(personal_data, "phone")
      linkedin == Get(personal_data, "linkedin")
      emailOk == Truthy(email) /\ IsStr(email) /\ email_pattern_match(email.s)
      phoneOk == Truthy(phone) /\ IsStr(phone) /\ phone_pattern_search(phone.s)
      linkedinOk ==
        /\ Truthy(linkedin) /\ IsStr(linkedin)
        /\ Contains(Lower(linkedin.s), <<"l", "i", "n", "k", "e", "d", "i", "n", ".", "c", "o", "m">>)
        /\ Lower(linkedin.s) # <<"s", "t", "r", "i", "n", "g">>
  IN IF ~IsDict(personal_data) THEN [item EXCEPT !.score = Whole(0), !.passed = <<>>]
     ELSE IF emailOk
       THEN [item EXCEPT !.score = RMul(item.max, Rat(4, 10)),
                         !.passed = <<"Email (Valid Format)">>]
     ELSE IF phoneOk
       THEN [item EXCEPT !.score = RMul(item.max, Rat(4, 10)), !.passed = <<"Phone (Found)">>]
     ELSE IF linkedinOk
       THEN [item EXCEPT !.score = RMul(item.max, Rat(2, 10)), !.passed = <<"LinkedIn (Found)">>]
     ELSE [item EXCEPT !.score = Whole(0), !.passed = <<>>]
ContactInfoQuality(data, item) ==
  LET personal_data == GetOr(data, "Personal Data", EmptyDict)
      email == Get(personal_data, "email")
      phone == Get(personal_data, "phone")
      linkedin == Get(personal_data, "linkedin")
      emailOk == Truthy(email) /\ IsStr(email) /\ email_pattern_match(email.s)
      phoneOk == Truthy(phone) /\ IsStr(phone) /\ phone_pattern_search(phone.s)
      linkedinOk ==
        /\ Truthy(linkedin) /\ IsStr(linkedin)
        /\ Contains(Lower(linkedin.s), <<"l", "i", "n", "k", "e", "d", "i", "n", ".", "c", "o", "m">>)
        /\ Lower(linkedin.s) # <<"s", "t", "r", "i", "n", "g">>
      contact_score ==
        RSum(<< IF emailOk THEN RMul(item.max, Rat(4, 10)) ELSE Whole(0),
                IF phoneOk THEN RMul(item.max, Rat(4, 10)) ELSE Whole(0),
                IF linkedinOk THEN RMul(item.max, Rat(2, 10)) ELSE Whole(0) >>)
      contact_details_found ==
        (IF emailOk THEN <<"Email (Valid Format)">> ELSE <<>>)
        \o (IF phoneOk THEN <<"Phone (Found)">> ELSE <<>>)
        \o (IF linkedinOk THEN <<"LinkedIn (Found)">> ELSE <<>>)
  IN IF IsDict(personal_data)
     THEN [item EXCEPT !.score = contact_score, !.passed = contact_details_found]
     ELSE [item EXCEPT !.score = Whole(0), !.passed = <<>>]

\* 3. Profile Summary Quality
\* the bands without their edges: 25 < n < 75, 10 < n < 25 or 75 < n < 100
ProfileSummaryQualityOpenBands(data, item) ==
  LET summary == Get(data, "Profile Summary")
      summary_present == Truthy(summary) /\ IsStr(summary) /\ Len(Strip(summary.s)) > 0
      summary_length == IF summary_present THEN Len(SplitWs(summary.s)) ELSE 0
      summary_score ==
        IF ~summary_present THEN Whole(0)
        ELSE IF 25 < summary_length /\ summary_length < 75 THEN item.max
        ELSE IF \/ (10 < summary_length /\ summary_length < 25)
                \/ (75 < summary_length /\ summary_length < 100)
             THEN RMul(item.max, Rat(1, 2))
        ELSE Whole(0)
  IN [item EXCEPT !.score = summary_score, !.present = summary_present,
                  !.length = summary_length]
ProfileSummaryQuality(data, item) ==
  LET summary == Get(data, "Profile Summary")
      summary_present == Truthy(summary) /\ IsStr(summary) /\ Len(Strip(summary.s)) > 0
      summary_length == IF summary_present THEN Len(SplitWs(summary.s)) ELSE 0
      summary_score ==
        IF ~summary_present THEN Whole(0)
        ELSE IF 25 <= summary_length /\ summary_length <= 75 THEN item.max
        ELSE IF \/ (10 <= summary_length /\ summary_length < 25)
                \/ (75 < summary_length /\ summary_length <= 100)
             THEN RMul(item.max, Rat(1, 2))
        ELSE Whole(0)
  IN [item EXCEPT !.score = summary_score, !.present = summary_present,
                  !.length = summary_length]

\* 4. Keyword Density
\* iter(x): the items a for loop over x visits (for a dict its keys, which
\* are strings); iterable is FALSE where Python raises TypeError
Iterate(x) ==
  CASE x.k = "list" -> [iterable |-> TRUE, items |-> x.xs, keys |-> {}]
    [] x.k = "str" ->
         [iterable |-> TRUE, keys |-> {},
          items |-> [i \in 1..Len(x.s) |-> PyStr(<<x.s[i]>>)]]
    [] x.k = "dict" -> [iterable |-> TRUE, items |-> <<>>, keys |-> DOMAIN x.kv]
    [] OTHER -> [iterable |-> FALSE, items |-> <<>>, keys |-> {}]
target_keywords == 30
SkillName(skill_entry) ==
  IF IsDict(skill_entry)
  THEN Or(Get(skill_entry, "skillName"), Get(skill_entry, "skill_name"))
  ELSE None
\* the keyword score without min(..., 1.0)
KeywordDensityUncapped(data, item) ==
  LET extracted_keywords == GetOr(data, "Extracted Keywords", PyList(<<>>))
      skills_list == GetOr(data, "Skills", PyList(<<>>))
      it == Iterate(extracted_keywords)
      fromKeywords ==
        {Join(it.items[i].s) : i \in {j \in 1..Len(it.items) : IsStr(it.items[j])}}
        \cup it.keys
      fromSkills ==
        IF IsList(skills_list)
        THEN {Join(SkillName(skills_list.xs[i]).s) :
                i \in {j \in 1..Len(skills_list.xs) :
                         /\ Truthy(SkillName(skills_list.xs[j]))
                         /\ IsStr(SkillName(skills_list.xs[j]))}}
        ELSE {}
      all_keywords == fromKeywords \cup fromSkills
      keyword_count == Cardinality(all_keywords)
      keyword_ratio == Rat(keyword_count, target_keywords)
  IN [item EXCEPT !.score = RMul(keyword_ratio, item.max),
                  !.passed = keyword_count,
                  !.keywords_found = all_keywords]
KeywordDensity(data, item) ==
  LET extracted_keywords == GetOr(data, "Extracted Keywords", PyList(<<>>))
      skills_list == GetOr(data, "Skills", PyList(<<>>))
      it == Iterate(extracted_keywords)
      fromKeywords ==
        {Join(it.items[i].s) : i \in {j \in 1..Len(it.items) : IsStr(it.items[j])}}
        \cup it.keys
      fromSkills ==
        IF IsList(skills_list)
        THEN {Join(SkillName(skills_list.xs[i]).s) :
                i \in {j \in 1..Len(skills_list.xs) :
                         /\ Truthy(SkillName(skills_list.xs[j]))
                         /\ IsStr(SkillName(skills_list.xs[j]))}}
        ELSE {}
      all_keywords == fromKeywords \cup fromSkills
      keyword_count == Cardinality(all_keywords)
      keyword_ratio == RMin(Rat(keyword_count, target_keywords), Whole(1))
  IN [item EXCEPT !.score = RMul(keyword_ratio, item.max),
                  !.passed = keyword_count,
                  !.keywords_found = all_keywords]

\* 5-9. Experience/Project Analysis
max_bullet_len_chars == 170
ListOrEmpty(x) == IF IsList(x) THEN x.xs ELSE <<>>
combined_entries(data) ==
  ListOrEmpty(GetOr(data, "Experiences", PyList(<<>>)))
  \o ListOrEmpty(GetOr(data, "Projects", PyList(<<>>)))
StrippedNonEmpty(t) == Len(Strip(t)) > 0
IsBulletString(d) == IsStr(d) /\ Len(Strip(d.s)) > 0
\* the description bullets of one entry
Descriptions(entry) ==
  LET descriptions_raw == Get(entry, "description")
      lines == SelectSeq(SplitOn(descriptions_raw.s, "\n"), StrippedNonEmpty)
      items == SelectSeq(descriptions_raw.xs, IsBulletString)
  IN IF ~IsDict(entry) THEN <<>>
     ELSE IF IsStr(descriptions_raw) THEN [i \in 1..Len(lines) |-> Strip(lines[i])]
     ELSE IF IsList(descriptions_raw) THEN [i \in 1..Len(items) |-> items[i].s]
     ELSE <<>>
entry_has_desc(entry) == Len(Descriptions(entry)) > 0
entry_name(entry) == Or(Get(entry, "jobTitle"), GetOr(entry, "projectName", PyStr(<<"E", "n", "t", "r", "y">>)))
TrailingPunct == {".", ",", ":"}
is_action_verb(desc) ==
  LET desc_words == SplitOn(desc, " ")
      first_word == IF Len(desc_words) > 0 THEN RStrip(Lower(desc_words[1]), TrailingPunct) ELSE <<>>
      second_word == RStrip(Lower(desc_words[2]), TrailingPunct)
  IN IF Join(first_word) \in action_verbs_set THEN TRUE
     ELSE IF /\ \/ Join(first_word) \in common_adverbs
                \/ (EndsWith(first_word, <<"l", "y">>) /\ Len(first_word) > 3)
             /\ Len(desc_words) > 1
          THEN Join(second_word) \in action_verbs_set
     ELSE FALSE
has_number(desc) == number_pattern_search(desc)
is_concise(desc) == Len(desc) <= max_bullet_len_chars
has_passive(desc) == passive_voice_pattern_search(desc)
has_filler(desc) == filler_words_pattern_search(desc)
\* the startDate and endDate strings one entry contributes to date_strings
EntryDates(entry) ==
  LET start_date == Get(entry, "startDate")
      end_date == Get(entry, "endDate")
      One(d) == IF IsStr(d) /\ Len(Strip(d.s)) > 0 THEN <<Strip(d.s)>> ELSE <<>>
  IN IF IsDict(entry) THEN One(start_date) \o One(end_date) ELSE <<>>
DatesOf(entries) == Concat([i \in 1..Len(entries) |-> EntryDates(entries[i])])
date_strings(data) ==
  DatesOf(combined_entries(data))
  \o DatesOf(ListOrEmpty(GetOr(data, "Education", PyList(<<>>))))
AllBullets(data) ==
  LET entries == combined_entries(data)
  IN Concat([i \in 1..Len(entries) |-> Descriptions(entries[i])])

ExperienceDetails(data, item) ==
  LET entries == combined_entries(data)
      with_desc == SelectSeq(entries, entry_has_desc)
      entries_with_desc == Len(with_desc)
      fraction == IF Len(entries) > 0 THEN Rat(entries_with_desc, Len(entries)) ELSE Whole(0)
  IN [item EXCEPT !.total_entries = Len(entries),
                  !.passed = [i \in 1..Len(with_desc) |-> entry_name(with_desc[i])],
                  !.score = RMul(fraction, item.max)]
\* min(hits / total_bullets / target, 1.0) * max, target = tnum/tden
\* the ratio scaled to max without the cap at 1.0
RatioScoreUncapped(hits, total_bullets, tnum, tden, max) ==
  RMul(RDiv(Rat(hits, total_bullets), Rat(tnum, tden)), max)
RatioScore(hits, total_bullets, tnum, tden, max) ==
  RMul(RMin(RDiv(Rat(hits, total_bullets), Rat(tnum, tden)), Whole(1)), max)
ActionVerbs(data, item) ==
  LET bullets == AllBullets(data)
      total_bullets == Len(bullets)
      bullets_with_action_verbs == Count(bullets, is_action_verb)
  IN IF total_bullets > 0
     THEN [item EXCEPT !.total_bullets = total_bullets,
                       !.passed = bullets_with_action_verbs,
                       !.score = RatioScore(bullets_with_action_verbs, total_bullets, 8, 10, item.max)]
     ELSE [item EXCEPT !.total_bullets = total_bullets]
QuantifiableResults(data, item) ==
  LET bullets == AllBullets(data)
      total_bullets == Len(bullets)
      bullets_with_numbers == Count(bullets, has_number)
  IN IF total_bullets > 0
     THEN [item EXCEPT !.total_bullets = total_bullets,
                       !.passed = bullets_with_numbers,
                       !.score = RatioScore(bullets_with_numbers, total_bullets, 35, 100, item.max)]
     ELSE [item EXCEPT !.total_bullets = total_bullets]
BulletConciseness(data, item) ==
  LET bullets == AllBullets(data)
      total_bullets == Len(bullets)
      concise_bullets == Count(bullets, is_concise)
  IN IF total_bullets > 0
     THEN [item EXCEPT !.total_bullets = total_bullets,
                       !.passed = concise_bullets,
                       !.score = RatioScore(concise_bullets, total_bullets, 85, 100, item.max)]
     ELSE [item EXCEPT !.total_bullets = total_bullets]
\* the grammar score without its floor at 0
GrammarIndicatorsUnfloored(data, item) ==
  LET bullets == AllBullets(data)
      total_bullets == Len(bullets)
      passive_voice_count == Count(bullets, has_passive)
      filler_word_count == Count(bullets, has_filler)
      grammar_max == item.max
      passive_penalty_ratio == Rat(passive_voice_count, total_bullets)
      filler_penalty_ratio == Rat(filler_word_count, total_bullets)
      grammar_score ==
        RSub(RSub(grammar_max, RMul(RMul(passive_penalty_ratio, grammar_max), Rat(3, 2))),
             RMul(RMul(filler_penalty_ratio, grammar_max), Rat(3, 4)))
  IN IF total_bullets > 0
     THEN [item EXCEPT !.total_bullets = total_bullets,
                       !.score = grammar_score,
                       !.passive_count = passive_voice_count,
                       !.filler_count = filler_word_count]
     ELSE [item EXCEPT !.total_bullets = total_bullets]
GrammarIndicators(data, item) ==
  LET bullets == AllBullets(data)
      total_bullets == Len(bullets)
      passive_voice_count == Count(bullets, has_passive)
      filler_word_count == Count(bullets, has_filler)
      grammar_max == item.max
      passive_penalty_ratio == Rat(passive_voice_count, total_bullets)
      filler_penalty_ratio == Rat(filler_word_count, total_bullets)
      grammar_score ==
        RMax(Whole(0),
             RSub(RSub(grammar_max, RMul(RMul(passive_penalty_ratio, grammar_max), Rat(3, 2))),
                  RMul(RMul(filler_penalty_ratio, grammar_max), Rat(3, 4))))
  IN IF total_bullets > 0
     THEN [item EXCEPT !.total_bullets = total_bullets,
                       !.score = grammar_score,
                       !.passive_count = passive_voice_count,
                       !.filler_count = filler_word_count]
     ELSE [item EXCEPT !.total_bullets = total_bullets]

\* Date Consistency
format_category(d) ==
  IF Lower(d) = PresentWord THEN "PRESENT"
  ELSE IF IsYMD(d) THEN "YYYY-MM-DD"
  ELSE IF IsYM(d) THEN "YYYY-MM"
  ELSE IF IsMY(d) THEN "MM/YYYY"
  ELSE IF IsMonthYear(d) THEN "Month YYYY"
  ELSE "Unknown"
\* the judgment with PRESENT counted as a format of its own
DateConsistencyCountingPresent(data, item) ==
  LET dates == date_strings(data)
      date_formats_found == SelectSeq(dates, date_format_pattern_match)
      format_counts ==
        {format_category(date_formats_found[i]) : i \in 1..Len(date_formats_found)} \ {"Unknown"}
      consistent_dates ==
        IF Len(date_formats_found) >= 1
        THEN ~(format_counts # {} /\ Cardinality(format_counts) > 1)
        ELSE Len(dates) = 0
      found == {date_formats_found[i] : i \in 1..Len(date_formats_found)}
      base == [item EXCEPT !.has_dates = Len(dates) > 0, !.formats_found = found]
  IN IF consistent_dates /\ Len(date_formats_found) > 0
     THEN [base EXCEPT !.score = item.max, !.consistent = TRUE]
     ELSE IF Len(dates) = 0
     THEN [base EXCEPT !.score = RMul(item.max, Rat(1, 2)), !.consistent = TRUE]
     ELSE [base EXCEPT !.score = Whole(0), !.consistent = FALSE]
DateConsistency(data, item) ==
  LET dates == date_strings(data)
      date_formats_found == SelectSeq(dates, date_format_pattern_match)
      format_counts ==
        {format_category(date_formats_found[i]) : i \in 1..Len(date_formats_found)} \ {"Unknown"}
      valid_format_types == format_counts \ {"PRESENT"}
      consistent_dates ==
        IF Len(date_formats_found) >= 1
        THEN ~(format_counts # {} /\ Cardinality(valid_format_types) > 1)
        ELSE Len(dates) = 0
      found == {date_formats_found[i] : i \in 1..Len(date_formats_found)}
      base == [item EXCEPT !.has_dates = Len(dates) > 0, !.formats_found = found]
  IN IF consistent_dates /\ Len(date_formats_found) > 0
     THEN [base EXCEPT !.score = item.max, !.consistent = TRUE]
     ELSE IF Len(dates) = 0
     THEN [base EXCEPT !.score = RMul(item.max, Rat(1, 2)), !.consistent = TRUE]
     ELSE [base EXCEPT !.score = Whole(0), !.consistent = FALSE]

\* the outcome of a call: a returned value or a raised exception
Returned(value) == [raised |-> FALSE, value |-> value]
Raised(exc) == [raised |-> TRUE, exc |-> exc]

\* type(x).__name__
TypeName(x) == IF x.k = "none" THEN "NoneType" ELSE x.k

calculate_criteria_scores(data) ==
  LET C == InitialCriteria
      extracted_keywords == GetOr(data, "Extracted Keywords", PyList(<<>>))
  IN IF ~IsDict(data)
     THEN Raised("'" \o TypeName(data) \o "' object has no attribute 'get'")
     ELSE IF ~Iterate(extracted_keywords).iterable
     THEN Raised("'" \o TypeName(extracted_keywords) \o "' object is not iterable")
     ELSE Returned(
       [section_completeness |-> SectionCompleteness(data, C.section_completeness),
        contact_info_quality |-> ContactInfoQuality(data, C.contact_info_quality),
        profile_summary_quality |-> ProfileSummaryQuality(data, C.profile_summary_quality),
        keyword_density |-> KeywordDensity(data, C.keyword_density),
        experience_details_present |-> ExperienceDetails(data, C.experience_details_present),
        action_verbs |-> ActionVerbs(data, C.action_verbs),
        quantifiable_results |-> QuantifiableResults(data, C.quantifiable_results),
        bullet_conciseness |-> BulletConciseness(data, C.bullet_conciseness),
        grammar_indicators |-> GrammarIndicators(data, C.grammar_indicators),
        date_consistency |-> DateConsistency(data, C.date_consistency)])

(***************************************************************************)
(* sorted() of strings: by code point, a proper prefix first.              *)
(***************************************************************************)
DigitSeq == <<"0", "1", "2", "3", "4", "5", "6", "7", "8", "9">>
UpperSeq ==
  <<"A", "B", "C", "D", "E", "F", "G", "H", "I", "J", "K", "L", "M", "N", "O",
    "P", "Q", "R", "S", "T", "U", "V", "W", "X", "Y", "Z">>
IndexIn(seq, c) == CHOOSE i \in 1..Len(seq) : seq[i] = c
\* ord(c) for the ASCII characters of the date strings
Ord(c) ==
  CASE c \in Digits -> 47 + IndexIn(DigitSeq, c)
    [] c \in UpperLetters -> 64 + IndexIn(UpperSeq, c)
    [] c \in LowerLetters -> 96 + IndexIn(Lower(UpperSeq), c)
    [] c = " " -> 32
    [] c = "," -> 44
    [] c = "-" -> 45
    [] c = "." -> 46
    [] c = "/" -> 47
    [] c = "_" -> 95
StrLess(a, b) ==
  \E i \in 1..(Len(b)) :
    /\ \A j \in 1..(i - 1) : j <= Len(a) /\ a[j] = b[j]
    /\ (i > Len(a) \/ (i - 1 < Len(a) /\ Ord(a[i]) < Ord(b[i])))
RECURSIVE SortedStrings(_)
\* sorted(list(S)) for a set S of strings
SortedStrings(S) ==
  IF S = {} THEN <<>>
  ELSE LET m == CHOOSE a \in S : \A b \in S \ {a} : StrLess(a, b)
       IN <<m>> \o SortedStrings(S \ {m})

(***************************************************************************)
(* Suggestion Generator:                                                   *)
(* AtsScoringService._generate_structured_suggestions.                     *)
(***************************************************************************)
Categories ==
  {"Overall", "Structure & Sections", "Contact Info", "Profile Summary",
   "Keywords", "Experience & Projects", "Grammar & Style", "Education"}
score_threshold_good == 85
\* the medium threshold 25 under the good one
score_threshold_medium_lowered == score_threshold_good - 25
score_threshold_medium == 65
RECURSIVE ToStr(_)
\* str(n) for an integer n >= 0
ToStr(n) == IF n < 10 THEN DigitSeq[n + 1] ELSE ToStr(n \div 10) \o DigitSeq[(n % 10) + 1]
RECURSIVE JoinWith(_, _)
\* sep.join(xs)
JoinWith(xs, sep) ==
  IF Len(xs) = 0 THEN ""
  ELSE IF Len(xs) = 1 THEN xs[1]
  ELSE xs[1] \o sep \o JoinWith(Tail(xs), sep)
When(cond, xs) == IF cond THEN xs ELSE <<>>
InSeq(x, xs) == \E i \in 1..Len(xs) : xs[i] = x
Max(a, b) == IF a >= b THEN a ELSE b

StructureSuggestions(cs) ==
  LET sc == cs.section_completeness
      ps == cs.profile_summary_quality
      passed_sections_list == sc.passed
      missing ==
        When(~InSeq("Personal Data", passed_sections_list), <<"Contact Info">>)
        \o When(~InSeq("Experience", passed_sections_list), <<"Work Experience/Projects">>)
        \o When(~InSeq("Education", passed_sections_list), <<"Education">>)
        \o When(~InSeq("Skills", passed_sections_list), <<"Skills">>)
        \o When(~InSeq("Projects", passed_sections_list), <<"Projects">>)
  IN When(RLt(sc.score, RSub(sc.max, Rat(1, 10))) /\ Len(missing) > 0,
          <<"Missing or unclear standard sections: " \o JoinWith(missing, ", ") \o ". Use clear headers.">>)
     \o When(~ps.present /\ ~InSeq("Profile Summary", passed_sections_list),
             <<"Consider adding a Profile Summary/Objective section near the top.">>)

\* the contact block with the LinkedIn advice only
ContactSuggestionsLinkOnly(cs) ==
  When(~InSeq("LinkedIn (Found)", cs.contact_info_quality.passed),
       <<"Consider adding a professional LinkedIn profile link.">>)
ContactSuggestions(cs) ==
  LET ci == cs.contact_info_quality
      contact_passed == ci.passed
      missing_contact ==
        When(~InSeq("Email (Valid Format)", contact_passed), <<"valid Email">>)
        \o When(~InSeq("Phone (Found)", contact_passed), <<"Phone Number">>)
  IN When(RLt(ci.score, RMul(ci.max, Rat(8, 10))) /\ Len(missing_contact) > 0,
          <<"Include essential, correctly formatted details: " \o JoinWith(missing_contact, ", ") \o ".">>)
     \o When(~InSeq("LinkedIn (Found)", contact_passed),
             <<"Consider adding a professional LinkedIn profile link.">>)

ProfileSummarySuggestions(cs) ==
  LET ps == cs.profile_summary_quality
      passed_sections_list == cs.section_completeness.passed
  IN IF ~ps.present
     THEN When(InSeq("Profile Summary", passed_sections_list),
               <<"Add a brief Profile Summary (2-4 sentences) to highlight key qualifications.">>)
     ELSE IF RLt(ps.score, ps.max)
     THEN IF ps.length < 25
          THEN <<"Expand your summary slightly (aim for 2-4 sentences) to better introduce key skills.">>
          ELSE When(ps.length > 75,
                    <<"Condense your summary to 2-4 concise sentences focusing on strongest qualifications.">>)
     ELSE <<>>

\* the keyword suggestion without the elif for a score under 70 percent
KeywordSuggestionsLowCountOnly(cs) ==
  IF cs.keyword_density.passed < 10
  THEN <<"Keyword count is low. Ensure technical skills, tools, software, industry terms are clearly listed/described.">>
  ELSE <<>>
KeywordSuggestions(cs) ==
  LET kw == cs.keyword_density
      kw_count == kw.passed
  IN IF kw_count < 10
     THEN <<"Keyword count is low. Ensure technical skills, tools, software, industry terms are clearly listed/described.">>
     ELSE When(RLt(kw.score, RMul(kw.max, Rat(7, 10))),
               <<"Keyword usage (" \o ToStr(kw_count) \o " found) could be improved. Integrate more relevant terms naturally into Summary and Experience.">>)

ExperienceSuggestions(cs) ==
  LET ex == cs.experience_details_present
      av == cs.action_verbs
      qr == cs.quantifiable_results
      \* int(x * 0.8) and int(x * 0.35) for a count x >= 0
      target_quant_bullets == Max(1, (qr.total_bullets * 35) \div 100)
  IN When(RLt(ex.score, RSub(ex.max, Rat(1, 10))),
          <<"Ensure every work/project entry includes descriptive bullet points.">>)
     \o When(av.total_bullets > 0 /\ RLt(av.score, RMul(av.max, Rat(7, 10))),
             <<"Use strong action verbs (e.g., Managed, Developed) to start most ("
               \o ToStr(Max(1, ((av.total_bullets * 8) \div 10) - av.passed))
               \o " more) bullet points.">>)
     \o When(qr.total_bullets > 0 /\ RLt(qr.score, RMul(qr.max, Rat(6, 10))),
             <<"Quantify achievements more. Add numbers/metrics to showcase impact (aim for ~"
               \o ToStr(target_quant_bullets) \o " bullets).">>)

GrammarSuggestions(cs) ==
  LET bc == cs.bullet_conciseness
      gi == cs.grammar_indicators
      dc == cs.date_consistency
      unique_valid == SortedStrings({f \in dc.formats_found : date_format_pattern_match(f)})
      shown == SubSeq(unique_valid, 1, IF Len(unique_valid) > 3 THEN 3 ELSE Len(unique_valid))
      date_text == "Use a consistent date format (e.g., MM/YYYY or Month YYYY) throughout all sections (Experience, Education)."
  IN When(bc.total_bullets > 0 /\ RLt(bc.score, RMul(bc.max, Rat(8, 10))),
          <<"Keep bullet points concise (ideally 1-2 lines, under 170 characters) for easy scanning.">>)
     \o When(\/ RLt(gi.score, RMul(gi.max, Rat(8, 10)))
             \/ gi.passive_count > 0
             \/ gi.filler_count > 0,
             When(gi.passive_count > 0,
                  <<"Avoid passive voice (" \o ToStr(gi.passive_count)
                    \o " instance(s) found). Rephrase actively (e.g., 'Managed team' instead of 'Team was managed').">>)
             \o When(gi.filler_count > 0,
                     <<"Replace weaker phrases like 'responsible for' or 'assisted with' (" \o ToStr(gi.filler_count)
                       \o " instance(s) found) with direct action verbs describing your contribution.">>))
     \o When(~dc.consistent,
             IF dc.formats_found # {}
             THEN <<date_text \o " Found formats like: "
                    \o JoinWith([i \in 1..Len(shown) |-> Join(shown[i])], ", ")
                    \o (IF Len(unique_valid) > 3 THEN "..." ELSE "") \o ".">>
             ELSE <<date_text>>)

EducationSuggestions(data) ==
  LET education_entries == GetOr(data, "Education", PyList(<<>>))
      Incomplete(edu) ==
        IsDict(edu) /\ (~Truthy(Get(edu, "institution")) \/ ~Truthy(Get(edu, "degree")))
      missing_edu_details ==
        IsList(education_entries)
        /\ \E i \in 1..Len(education_entries.xs) : Incomplete(education_entries.xs[i])
  IN When(missing_edu_details,
          <<"Ensure all education entries include both the institution name and the degree/qualification obtained.">>)

OverallSuggestions(final_score, has_specific_suggestions) ==
  IF final_score < score_threshold_medium
  THEN <<"This resume needs significant improvement for ATS compatibility. Focus on the suggestions provided in each category.">>
  ELSE IF final_score < score_threshold_good
  THEN IF has_specific_suggestions
       THEN <<"Good start! This resume is reasonably ATS-friendly. Addressing the specific suggestions can make it much stronger.">>
       ELSE <<"Good structure and content! Generally ATS-friendly. Minor refinements could improve it further.">>
  ELSE IF has_specific_suggestions
       THEN <<"Excellent score! Your resume aligns well with ATS best practices. Addressing the minor suggestions below will perfect it.">>
       ELSE <<"Excellent! Your resume follows ATS best practices effectively.">>

\* the generator returning its eight lists as they are, the empty ones too
generate_structured_suggestions_unfiltered(cs, final_score, data) ==
  LET specific ==
        [cat \in Categories \ {"Overall"} |->
           CASE cat = "Structure & Sections" -> StructureSuggestions(cs)
             [] cat = "Contact Info" -> ContactSuggestions(cs)
             [] cat = "Profile Summary" -> ProfileSummarySuggestions(cs)
             [] cat = "Keywords" -> KeywordSuggestions(cs)
             [] cat = "Experience & Projects" -> ExperienceSuggestions(cs)
             [] cat = "Grammar & Style" -> GrammarSuggestions(cs)
             [] cat = "Education" -> EducationSuggestions(data)]
      has_specific_suggestions == \E cat \in DOMAIN specific : Len(specific[cat]) > 0
  IN Returned([cat \in Categories |->
                 IF cat = "Overall" THEN OverallSuggestions(final_score, has_specific_suggestions)
                 ELSE specific[cat]])
generate_structured_suggestions(cs, final_score, data) ==
  LET specific ==
        [cat \in Categories \ {"Overall"} |->
           CASE cat = "Structure & Sections" -> StructureSuggestions(cs)
             [] cat = "Contact Info" -> ContactSuggestions(cs)
             [] cat = "Profile Summary" -> ProfileSummarySuggestions(cs)
             [] cat = "Keywords" -> KeywordSuggestions(cs)
             [] cat = "Experience & Projects" -> ExperienceSuggestions(cs)
             [] cat = "Grammar & Style" -> GrammarSuggestions(cs)
             [] cat = "Education" -> EducationSuggestions(data)]
      has_specific_suggestions == \E cat \in DOMAIN specific : Len(specific[cat]) > 0
      suggestions ==
        [cat \in Categories |->
           IF cat = "Overall" THEN OverallSuggestions(final_score, has_specific_suggestions)
           ELSE specific[cat]]
      kept == {cat \in Categories : Len(suggestions[cat]) > 0}
  IN Returned([cat \in kept |-> suggestions[cat]])

(***************************************************************************)
(* Response Structurer: AtsScoringService._structure_frontend_response.    *)
(***************************************************************************)
THRESHOLD_GOOD == 80
THRESHOLD_MEDIUM == 60
\* the threshold of the Essential Sections sub-item taken from THRESHOLD_GOOD
EssentialSectionsThresholdGood == THRESHOLD_GOOD
EssentialSectionsThreshold == 90
ContactInformationThreshold == 80

\* math.ceil(min(max(score / max_score, 0), 1) * 100), None when max is 0
calculate_percentage(score, max_score) ==
  IF max_score.num = 0 THEN None
  ELSE PyInt(Ceil(RMul(RMin(RMax(RDiv(score, max_score), Whole(0)), Whole(1)), Whole(100))))
\* the bucketing without its middle bucket
get_status_color_perc_two_buckets(score, max_score) ==
  LET percentage == calculate_percentage(score, max_score)
  IN IF percentage = None THEN <<None, "Info", "default">>
     ELSE IF percentage.n >= THRESHOLD_GOOD THEN <<percentage, "Strong", "success">>
     ELSE <<percentage, "Needs Improvement", "error">>
get_status_color_perc(score, max_score) ==
  LET percentage == calculate_percentage(score, max_score)
  IN IF percentage = None THEN <<None, "Info", "default">>
     ELSE IF percentage.n >= THRESHOLD_GOOD THEN <<percentage, "Strong", "success">>
     ELSE IF percentage.n >= THRESHOLD_MEDIUM THEN <<percentage, "Okay", "warning">>
     ELSE <<percentage, "Needs Improvement", "error">>
\* "pass" if perc is not None and perc >= threshold else "fail"
PassIfAtLeast(perc, threshold) ==
  IF perc # None /\ perc.n >= threshold THEN "pass" ELSE "fail"
SubItem(text, status) == [text |-> text, status |-> status]
\* the sum of the scores, and of the maxes, of the items whose max is positive
CountedScore(items) ==
  RSum([i \in 1..Len(items) |-> IF items[i].max.num > 0 THEN items[i].score ELSE Whole(0)])
CountedMax(items) ==
  RSum([i \in 1..Len(items) |-> IF items[i].max.num > 0 THEN items[i].max ELSE Whole(0)])

ContentCategory(cs) ==
  LET qr_item == cs.quantifiable_results
      gi_item == cs.grammar_indicators
      qr_perc == calculate_percentage(qr_item.score, qr_item.max)
      gi_perc == calculate_percentage(gi_item.score, gi_item.max)
      counted == <<qr_item, gi_item>>
  IN [title |-> "CONTENT",
      percentage |-> calculate_percentage(CountedScore(counted), CountedMax(counted)),
      sub_items |->
        << SubItem("ATS Parse Rate", "pass"),
           SubItem("Quantifying Impact", PassIfAtLeast(qr_perc, THRESHOLD_MEDIUM)),
           SubItem("Repetition", "info"),
           SubItem("Spelling & Grammar", PassIfAtLeast(gi_perc, THRESHOLD_GOOD)) >>]
SectionCategory(cs) ==
  LET es_item == cs.section_completeness
      ci_item == cs.contact_info_quality
      es_perc == calculate_percentage(es_item.score, es_item.max)
      ci_perc == calculate_percentage(ci_item.score, ci_item.max)
      counted == <<es_item, ci_item>>
  IN [title |-> "SECTION",
      percentage |-> calculate_percentage(CountedScore(counted), CountedMax(counted)),
      sub_items |->
        << SubItem("Essential Sections", PassIfAtLeast(es_perc, EssentialSectionsThreshold)),
           SubItem("Contact Information", PassIfAtLeast(ci_perc, ContactInformationThreshold)) >>]
AtsEssentialsCategory(cs) ==
  LET ci_item == cs.contact_info_quality
      email_status == IF InSeq("Email (Valid Format)", ci_item.passed) THEN "pass" ELSE "fail"
      linkedin_status == IF InSeq("LinkedIn (Found)", ci_item.passed) THEN "pass" ELSE "fail"
      ats_pass_count ==
        (IF email_status = "pass" THEN 1 ELSE 0) + (IF linkedin_status = "pass" THEN 1 ELSE 0)
      ats_total_checkable == 2
  IN [title |-> "ATS ESSENTIALS",
      percentage |-> calculate_percentage(Whole(ats_pass_count), Whole(ats_total_checkable)),
      sub_items |->
        << SubItem("File Format & Size", "pass"),
           SubItem("Design", "info"),
           SubItem("Email Address", email_status),
           SubItem("Hyperlink in Header", linkedin_status) >>]
TailoringCategory ==
  [title |-> "TAILORING",
   percentage |-> None,
   sub_items |->
     << SubItem("Hard Skills", "info"), SubItem("Soft Skills", "info"),
        SubItem("Action Verbs", "info"), SubItem("Tailored Title", "info") >>]
sidebar_categories(cs) ==
  <<ContentCategory(cs), SectionCategory(cs), AtsEssentialsCategory(cs), TailoringCategory>>
\* if status == "fail": total_issues_count += 1
Issue(status) == IF status = "fail" THEN 1 ELSE 0
\* the counter without the increment for the header hyperlink
total_issues_count_without_link(cs) ==
  LET content == ContentCategory(cs).sub_items
      section == SectionCategory(cs).sub_items
      ats == AtsEssentialsCategory(cs).sub_items
  IN Issue(content[2].status) + Issue(content[4].status)
     + Issue(section[1].status) + Issue(section[2].status)
     + Issue(ats[3].status)
\* the counter after its six increments: Quantifying Impact, Spelling &
\* Grammar, Essential Sections, Contact Information, Email Address and
\* Hyperlink in Header
total_issues_count(cs) ==
  LET content == ContentCategory(cs).sub_items
      section == SectionCategory(cs).sub_items
      ats == AtsEssentialsCategory(cs).sub_items
  IN Issue(content[2].status) + Issue(content[4].status)
     + Issue(section[1].status) + Issue(section[2].status)
     + Issue(ats[3].status) + Issue(ats[4].status)
sidebar_output(final_score, cs) ==
  [overall_score |-> final_score,
   total_issues |-> total_issues_count(cs),
   categories |-> sidebar_categories(cs)]

Point(text, isGood) == [text |-> text, isGood |-> isGood]
\* the list of the category after the Overall message
SuggestionsWithOverall(suggestions, category) ==
  suggestions["Overall"]
  \o (IF category \in DOMAIN suggestions THEN suggestions[category] ELSE <<>>)
\* suggestions.get(category, [])
SuggestionsFor(suggestions, category) ==
  IF category \in DOMAIN suggestions THEN suggestions[category] ELSE <<>>
Card(id, icon, title, sc, points, ai_suggestions) ==
  [id |-> id, icon |-> icon, title |-> title, status |-> sc[2], color |-> sc[3],
   points |-> points, ai_suggestions |-> ai_suggestions]
SummaryCard(cs, suggestions) ==
  LET summary_item == cs.profile_summary_quality
      summary_points ==
        IF summary_item.present
        THEN <<Point("Summary is present.", TRUE),
               IF summary_item.score = summary_item.max
               THEN Point("Good length (25-75 words).", TRUE)
               ELSE Point("Summary length is too short (< 25 words) or too long (> 75 words).", FALSE)>>
        ELSE <<Point("Profile Summary section is missing or empty.", FALSE)>>
  IN Card("summary", "memo", "Summary",
          get_status_color_perc(summary_item.score, summary_item.max),
          summary_points, SuggestionsFor(suggestions, "Profile Summary"))
ExperienceCard(cs, suggestions) ==
  LET av_item == cs.action_verbs
      qr_item == cs.quantifiable_results
      exp_details_item == cs.experience_details_present
      exp_score == RSum(<<av_item.score, qr_item.score, exp_details_item.score>>)
      exp_max == RSum(<<av_item.max, qr_item.max, exp_details_item.max>>)
      exp_entries_count == exp_details_item.total_entries
      desc_entries_count == Len(exp_details_item.passed)
      av_perc == calculate_percentage(av_item.score, av_item.max)
      qr_perc == calculate_percentage(qr_item.score, qr_item.max)
      exp_points ==
        When(exp_entries_count > 0,
             <<Point("Found descriptions for " \o ToStr(desc_entries_count) \o " of "
                     \o ToStr(exp_entries_count) \o " entries.",
                     desc_entries_count = exp_entries_count)>>)
        \o <<Point("Uses strong action verbs to start bullet points.",
                   av_perc # None /\ av_perc.n >= THRESHOLD_MEDIUM),
             Point("Includes quantifiable achievements (numbers, $, %).",
                   qr_perc # None /\ qr_perc.n >= THRESHOLD_MEDIUM)>>
  IN Card("experience", "briefcase", "Work Experience",
          get_status_color_perc(exp_score, exp_max),
          exp_points, SuggestionsFor(suggestions, "Experience & Projects"))
SkillsCard(cs, suggestions) ==
  LET kw_item == cs.keyword_density
      kw_count == kw_item.passed
      kw_points ==
        IF kw_count >= 15
        THEN <<Point("Good mix of skills/keywords found (" \o ToStr(kw_count) \o ").", TRUE)>>
        ELSE IF kw_count >= 5
        THEN <<Point("Includes some relevant skills (" \o ToStr(kw_count) \o "), but could add more.", TRUE)>>
        ELSE <<Point("Low skill/keyword count (" \o ToStr(kw_count) \o "). Add more relevant terms.", FALSE)>>
  IN Card("skills", "hammer and wrench", "Skills",
          get_status_color_perc(kw_item.score, kw_item.max),
          kw_points, SuggestionsFor(suggestions, "Keywords"))
StyleCard(cs, suggestions) ==
  LET bc_item == cs.bullet_conciseness
      gi_item == cs.grammar_indicators
      dc_item == cs.date_consistency
      style_score == RSum(<<bc_item.score, gi_item.score, dc_item.score>>)
      style_max == RSum(<<bc_item.max, gi_item.max, dc_item.max>>)
      bc_perc == calculate_percentage(bc_item.score, bc_item.max)
      gi_perc == calculate_percentage(gi_item.score, gi_item.max)
      style_points ==
        <<Point("Bullet points are concise and easy to read.",
                bc_perc # None /\ bc_perc.n >= THRESHOLD_GOOD),
          Point("Uses active voice and strong phrasing.",
                gi_perc # None /\ gi_perc.n >= THRESHOLD_GOOD),
          Point("Date formats are consistent.", dc_item.consistent)>>
  IN Card("style", "artist palette", "Formatting & Style",
          get_status_color_perc(style_score, style_max),
          style_points, SuggestionsFor(suggestions, "Grammar & Style"))
\* an experience card that divides by the number of bullets: with none, its
\* try block raises and the except branch drops the card
report_details_output_dropping(cs, suggestions) ==
  IF cs.action_verbs.total_bullets = 0
  THEN <<SummaryCard(cs, suggestions), SkillsCard(cs, suggestions), StyleCard(cs, suggestions)>>
  ELSE <<SummaryCard(cs, suggestions), ExperienceCard(cs, suggestions),
         SkillsCard(cs, suggestions), StyleCard(cs, suggestions)>>
\* the four try blocks append one card each; on a CriteriaScores mapping no
\* statement inside them raises, so no except branch drops a card
report_details_output(cs, suggestions) ==
  <<SummaryCard(cs, suggestions), ExperienceCard(cs, suggestions),
    SkillsCard(cs, suggestions), StyleCard(cs, suggestions)>>

structure_frontend_response(final_score, cs, suggestions) ==
  Returned([ats_score |-> final_score,
            score_breakdown_for_sidebar |-> sidebar_output(final_score, cs),
            report_details |-> report_details_output(cs, suggestions)])

(***************************************************************************)
(* The inputs the model draws from: strings, field values, entries and     *)
(* whole resume objects, well-typed and malformed.                         *)
(***************************************************************************)
\* "a@b.com"
S_email_ok == <<"a", "@", "b", ".", "c", "o", "m">>
\* "a@b"
S_email_bad == <<"a", "@", "b">>
\* "555-123-4567"
S_phone == <<"5", "5", "5", "-", "1", "2", "3", "-", "4", "5", "6", "7">>
\* "12345"
S_phone_short == <<"1", "2", "3", "4", "5">>
\* "linkedin.com/in/a"
S_linkedin ==
  <<"l", "i", "n", "k", "e", "d", "i", "n", ".", "c", "o", "m", "/", "i", "n", "/", "a">>
\* "string"
S_placeholder == <<"s", "t", "r", "i", "n", "g">>
\* "x"
S_x == <<"x">>
\* "abc"
S_abc == <<"a", "b", "c">>
\* "python"
S_python == <<"p", "y", "t", "h", "o", "n">>
\* "sql"
S_sql == <<"s", "q", "l">>
\* "go"
S_go == <<"g", "o">>
\* "Dev"
S_dev == <<"D", "e", "v">>
\* "MIT"
S_mit == <<"M", "I", "T">>
\* "BS"
S_bs == <<"B", "S">>
\* "P"
S_p == <<"P">>
\* "2020-01"
D_ym == <<"2", "0", "2", "0", "-", "0", "1">>
\* "2021-05"
D_ym2 == <<"2", "0", "2", "1", "-", "0", "5">>
\* "05/2021"
D_my == <<"0", "5", "/", "2", "0", "2", "1">>
\* "2021-02-03"
D_ymd == <<"2", "0", "2", "1", "-", "0", "2", "-", "0", "3">>
\* "Jan 2020"
D_month == <<"J", "a", "n", " ", "2", "0", "2", "0">>
\* "Present"
D_present == <<"P", "r", "e", "s", "e", "n", "t">>
\* "Presently"
D_presently == <<"P", "r", "e", "s", "e", "n", "t", "l", "y">>
\* "foo"
D_foo == <<"f", "o", "o">>
\* "Led 5 engineers"
B_led == <<"L", "e", "d", " ", "5", " ", "e", "n", "g", "i", "n", "e", "e", "r", "s">>
\* "Successfully managed budgets."
B_adv ==
  <<"S", "u", "c", "c", "e", "s", "s", "f", "u", "l", "l", "y", " ", "m", "a", "n", "a",
    "g", "e", "d", " ", "b", "u", "d", "g", "e", "t", "s", ".">>
\* "Reports were reviewed weekly"
B_pas ==
  <<"R", "e", "p", "o", "r", "t", "s", " ", "w", "e", "r", "e", " ", "r", "e", "v", "i",
    "e", "w", "e", "d", " ", "w", "e", "e", "k", "l", "y">>
\* "Responsible for sales"
B_fil ==
  <<"R", "e", "s", "p", "o", "n", "s", "i", "b", "l", "e", " ", "f", "o", "r", " ", "s",
    "a", "l", "e", "s">>
\* 'Led 5 engineers\n\n worked on apps '
B_lines ==
  <<"L", "e", "d", " ", "5", " ", "e", "n", "g", "i", "n", "e", "e", "r", "s", "\n",
    "\n", " ", "w", "o", "r", "k", "e", "d", " ", "o", "n", " ", "a", "p", "p", "s", " ">>
Repeat(c, n) == [i \in 1..n |-> c]
\* a bullet of max_bullet_len_chars + 6 characters
B_long == <<"B", "u", "i", "l", "t", " ">> \o Repeat("x", max_bullet_len_chars)
\* a text of n one-letter words
Words(n) == [i \in 1..(2 * n - 1) |-> IF i % 2 = 1 THEN "w" ELSE " "]
\* n distinct keywords k01, k02, ...
KeywordList(n) ==
  PyList([i \in 1..n |-> PyStr(<<"k", DigitSeq[(i \div 10) + 1], DigitSeq[(i % 10) + 1]>>)])

\* a resume object with the seven top-level keys; an Absent value leaves
\* the key out
Resume(pd, ps, ex, ed, sk, pr, kw) ==
  LET f == ("Personal Data" :> pd) @@ ("Profile Summary" :> ps) @@ ("Experiences" :> ex)
           @@ ("Education" :> ed) @@ ("Skills" :> sk) @@ ("Projects" :> pr)
           @@ ("Extracted Keywords" :> kw)
  IN PyDict([key \in {x \in DOMAIN f : f[x] # Absent} |-> f[key]])

PD_full ==
  PyDict([email |-> PyStr(S_email_ok), phone |-> PyStr(S_phone), linkedin |-> PyStr(S_linkedin)])
PD_nolink == PyDict([email |-> PyStr(S_email_ok), phone |-> PyStr(S_phone)])
PD_placeholder ==
  PyDict([email |-> PyStr(S_email_bad), phone |-> None, linkedin |-> PyStr(S_placeholder)])
PD_mistyped ==
  PyDict([email |-> PyInt(5), phone |-> PyStr(S_phone_short),
          linkedin |-> PyList(<<PyStr(S_linkedin)>>)])
PersonalDataValues ==
  {Absent, None, PyStr(S_x), EmptyDict, PD_full, PD_nolink, PD_placeholder, PD_mistyped}

ProfileSummaryValues ==
  {Absent, PyInt(7), PyStr(<<>>), PyStr(<<" ", " ">>), PyStr(Words(5)), PyStr(Words(12)),
   PyStr(Words(50)), PyStr(Words(80)), PyStr(Words(101))}

KeywordValues ==
  {Absent, None, PyInt(5), PyStr(S_abc), PyDict([a |-> PyInt(1)]),
   PyList(<<PyStr(S_python), PyStr(S_sql)>>), PyList(<<PyStr(S_python), PyInt(5), None>>),
   KeywordList(12), KeywordList(30)}

SK_mixed ==
  PyList(<<PyDict([skillName |-> PyStr(S_python)]), PyDict([skill_name |-> PyStr(S_go)]),
           PyInt(5), PyDict([skillName |-> PyInt(7)])>>)
SkillsValues == {Absent, PyInt(5), PyList(<<>>), SK_mixed}

ED_full ==
  PyList(<<PyDict([institution |-> PyStr(S_mit), degree |-> PyStr(S_bs),
                   startDate |-> PyStr(D_ym), endDate |-> PyStr(D_present)])>>)
ED_nodegree == PyList(<<PyDict([institution |-> PyStr(S_mit), startDate |-> PyStr(D_my)])>>)
EducationValues == {Absent, PyStr(S_x), PyList(<<None>>), ED_full, ED_nodegree}

\* an experience or project entry with a list of bullets and two dates
Entry(bullets, start_date, end_date) ==
  PyDict([jobTitle |-> PyStr(S_dev),
          description |-> PyList([i \in 1..Len(bullets) |-> PyStr(bullets[i])]),
          startDate |-> start_date, endDate |-> end_date])
PR_one ==
  PyList(<<PyDict([projectName |-> PyStr(S_p), description |-> PyList(<<PyStr(B_led)>>),
                   startDate |-> PyStr(D_ym2)])>>)
ProjectsValues == {Absent, EmptyDict, PR_one}

BulletVocabulary == <<B_led, B_adv, B_pas, B_fil, B_long>>
\* the non-decreasing index sequences of length 1..n over 1..m
RECURSIVE Ascending(_, _)
Ascending(m, n) ==
  IF n = 0 THEN {<<>>}
  ELSE LET shorter == Ascending(m, n - 1)
       IN shorter \cup {Append(t, i) : t \in {u \in shorter : Len(u) = n - 1}, i \in 1..m}
Sorted(t) == \A i \in 1..(Len(t) - 1) : t[i] <= t[i + 1]
BulletLists ==
  {[i \in 1..Len(t) |-> BulletVocabulary[t[i]]] :
     t \in {u \in Ascending(Len(BulletVocabulary), MaxBullets) : Sorted(u) /\ Len(u) > 0}}
EntryVocabulary ==
  {None,
   PyDict([jobTitle |-> PyStr(S_dev)]),
   PyDict([jobTitle |-> PyStr(S_dev), description |-> PyInt(5)]),
   PyDict([jobTitle |-> PyStr(S_dev), description |-> PyStr(B_lines)]),
   PyDict([description |-> PyList(<<PyStr(<<" ">>), PyInt(5)>>), startDate |-> PyStr(D_ym)]),
   Entry(<<B_led>>, PyStr(D_my), None),
   Entry(<<B_led>>, PyStr(D_foo), PyInt(2020)),
   Entry(<<B_led>>, PyStr(D_month), PyStr(D_ymd)),
   Entry(<<B_led>>, PyStr(D_presently), PyStr(<<" ">>)),
   Entry(<<B_adv, B_long>>, PyStr(D_ym), PyStr(D_present)),
   Entry(<<B_pas, B_fil>>, PyStr(D_ym), PyStr(D_present))}

RECURSIVE SetToSeq(_)
\* the elements of a finite set in some fixed order
SetToSeq(S) ==
  IF S = {} THEN <<>>
  ELSE LET x == CHOOSE y \in S : TRUE IN <<x>> \o SetToSeq(S \ {x})
EntrySeq == SetToSeq(EntryVocabulary)
\* the entry lists of at most MaxEntries entries, one per multiset of entries
EntryLists ==
  {PyList([i \in 1..Len(t) |-> EntrySeq[t[i]]]) :
     t \in {u \in Ascending(Len(EntrySeq), MaxEntries) : Sorted(u)}}
ExperiencesValues == {Absent, None, PyStr(S_x)} \cup EntryLists

EX_one == PyList(<<Entry(<<B_led>>, PyStr(D_ym), PyStr(D_present))>>)
FullResume ==
  Resume(PD_full, PyStr(Words(50)), EX_one, ED_full, SK_mixed, PR_one, KeywordList(30))
\* a non-empty record with none of the seven keys
OtherKeysResume == PyDict([foo |-> PyInt(1)])
\* values that are absent or empty, and non-empty values that are no record
EmptyInputs == {None, EmptyDict, PyList(<<>>), PyStr(<<>>), PyInt(0)}
NonRecordInputs == {PyList(<<PyInt(1)>>), PyStr(S_abc), PyInt(5)}

\* every field absent, malformed or well-formed
TypeSweep ==
  {Resume(pd, ps, ex, ed, sk, pr, kw) :
     pd \in {Absent, PyStr(S_x), PD_full},
     ps \in {Absent, PyInt(7), PyStr(Words(50))},
     ex \in {Absent, PyStr(S_x), EX_one},
     ed \in {Absent, PyStr(S_x), ED_full},
     sk \in {Absent, PyInt(5), SK_mixed},
     pr \in {Absent, EmptyDict, PR_one},
     kw \in {Absent, PyInt(5), KeywordList(30)}}
\* every entry list, in an otherwise empty and an otherwise full resume
ExperienceSweep ==
  {Resume(Absent, Absent, ex, Absent, Absent, Absent, Absent) : ex \in ExperiencesValues}
  \cup {Resume(PD_full, PyStr(Words(50)), ex, ED_full, SK_mixed, pr, KeywordList(30)) :
          ex \in ExperiencesValues, pr \in ProjectsValues \ {EmptyDict}}
\* every bullet list, in one entry of an otherwise empty and an otherwise full resume
\* 'Managed.'
V_punct == <<"M", "a", "n", "a", "g", "e", "d", ".">>
\* 'Directly managed teams'
V_adverb == <<"D", "i", "r", "e", "c", "t", "l", "y", " ", "m", "a", "n", "a", "g", "e", "d", " ", "t", "e", "a", "m", "s">>
\* 'Only managed'
V_ly == <<"O", "n", "l", "y", " ", "m", "a", "n", "a", "g", "e", "d">>
\* 'Fly managed'
V_short_ly == <<"F", "l", "y", " ", "m", "a", "n", "a", "g", "e", "d">>
\* 'Directly'
V_alone == <<"D", "i", "r", "e", "c", "t", "l", "y">>
\* 'Teams managed'
V_noun == <<"T", "e", "a", "m", "s", " ", "m", "a", "n", "a", "g", "e", "d">>
\* ' Managed teams'
V_lead == <<" ", "M", "a", "n", "a", "g", "e", "d", " ", "t", "e", "a", "m", "s">>
\* 'Directly  managed'
V_double == <<"D", "i", "r", "e", "c", "t", "l", "y", " ", " ", "m", "a", "n", "a", "g", "e", "d">>
\* 'Managed\tteams'
V_tab == <<"M", "a", "n", "a", "g", "e", "d", "\t", "t", "e", "a", "m", "s">>
\* bullets for the first-word rules: a verb with punctuation, an adverb or
\* an -ly word before a verb, and words set apart by other blanks than one
\* space
VerbBullets == {V_punct, V_adverb, V_ly, V_short_ly, V_alone, V_noun, V_lead, V_double, V_tab}
VerbSweep ==
  {Resume(Absent, Absent, PyList(<<Entry(<<b>>, PyStr(D_ym), PyStr(D_present))>>),
          Absent, Absent, Absent, Absent) : b \in VerbBullets}
\* resumes with every section, without dates, whose seven bullets (four
\* with an action verb, two with a number, five concise) and whose keywords
\* (n, and the two skill names) sit just above the suggestion thresholds when
\* n = 19 and leave the keywords under theirs when n = 8
BorderlineResume(n) ==
  Resume(PD_full, PyStr(Words(25)),
         PyList(<<PyDict([jobTitle |-> PyStr(S_dev),
                          description |-> PyList(<<PyStr(B_led), PyStr(B_led),
                                                   PyStr(V_punct), PyStr(V_punct)>>)])>>),
         PyList(<<PyDict([institution |-> PyStr(S_mit), degree |-> PyStr(S_bs)])>>),
         SK_mixed,
         PyList(<<PyDict([projectName |-> PyStr(S_p),
                          description |-> PyList(<<PyStr(V_noun), PyStr(B_long),
                                                   PyStr(B_long)>>)])>>),
         KeywordList(n))
BorderlineSweep == {BorderlineResume(n) : n \in {8, 19}}
\* entries that have dates and nothing else
DateOnlySweep ==
  {Resume(Absent, Absent, PyList(<<PyDict([startDate |-> PyStr(s), endDate |-> PyStr(e)])>>),
          Absent, Absent, Absent, Absent) :
     s \in {D_ym, D_foo}, e \in {D_my, D_present, D_foo}}
BulletSweep ==
  {Resume(Absent, Absent, PyList(<<Entry(b, PyStr(D_ym), PyStr(D_present))>>),
          Absent, Absent, Absent, Absent) : b \in BulletLists}
  \cup {Resume(PD_full, PyStr(Words(50)), PyList(<<Entry(b, PyStr(D_ym), PyStr(D_present))>>),
                ED_full, SK_mixed, PR_one, KeywordList(30)) : b \in BulletLists}
ContactSweep ==
  {Resume(pd, ps, EX_one, ED_full, SK_mixed, PR_one, kw) :
     pd \in PersonalDataValues, ps \in ProfileSummaryValues, kw \in KeywordValues}
\* every combination of a good or bad email, phone and link
ContactPartsSweep ==
  {Resume(PyDict([email |-> PyStr(e), phone |-> PyStr(ph), linkedin |-> PyStr(l)]),
          Absent, Absent, Absent, Absent, Absent, Absent) :
     e \in {S_email_ok, S_email_bad}, ph \in {S_phone, S_phone_short},
     l \in {S_linkedin, S_placeholder}}
\* summaries at the edges of the word-count bands
SummarySweep ==
  {Resume(Absent, PyStr(Words(n)), Absent, Absent, Absent, Absent, Absent) :
     n \in {9, 10, 24, 25, 75, 76, 100}}
SkillsSweep ==
  {Resume(PD_full, PyStr(Words(50)), EX_one, ed, sk, PR_one, kw) :
     ed \in EducationValues, sk \in SkillsValues, kw \in KeywordValues}
Inputs ==
  EmptyInputs \cup NonRecordInputs \cup {OtherKeysResume}
  \cup TypeSweep \cup ExperienceSweep \cup BulletSweep \cup ContactSweep \cup SkillsSweep
  \cup ContactPartsSweep \cup SummarySweep \cup VerbSweep \cup DateOnlySweep
  \cup BorderlineSweep
\* the inputs of the repeated and of the concurrent calls: an empty one, a
\* full one, one without bullets and one whose keywords are no sequence
SparseResume ==
  Resume(PD_placeholder, Absent, PyList(<<None>>), Absent, Absent, Absent, Absent)
UnscoredResume == Resume(PD_full, Absent, Absent, Absent, Absent, Absent, PyInt(5))
RepeatInputs == {EmptyDict, SparseResume, UnscoredResume}
CoreInputs == {EmptyDict, FullResume, SparseResume, UnscoredResume}
ResumeIds == {"r1", "r2"}

(***************************************************************************)
(* Orchestrator: AtsScoringService.calculate_ats_score, one action per     *)
(* step of the method, for each thread that calls it.                      *)
(***************************************************************************)
Threads == 1..MaxThreads
Unset == [k |-> "unset"]

VARIABLES
  pc,                     \* where each thread is in calculate_ats_score
  resume_id,              \* the arguments of the call
  processed_resume_data,
  criteria_scores,        \* the locals of the call
  final_score,
  suggestions,
  exc,                    \* the exception the except clause caught
  result,                 \* the value of the return statement
  response,               \* what the caller last received
  stages,                 \* the pipeline stages the call invoked
  calls_left,             \* how many more calls the thread makes
  instance,               \* the service instance the call runs on
  instances,              \* how many instances were constructed
  log,                    \* every call returned so far
  ai_pc,                  \* where the call of get_ai_ats_score is
  ai_data,                \* its argument processed_resume_data
  raw_output,             \* what the agent manager returned
  ai_exc,                 \* the exception raised in the call
  ai_result               \* the value of its return statement

vars ==
  <<pc, resume_id, processed_resume_data, criteria_scores, final_score, suggestions,
    exc, result, response, stages, calls_left, instance, instances, log,
    ai_pc, ai_data, raw_output, ai_exc, ai_result>>
engine_frame ==
  <<pc, resume_id, processed_resume_data, criteria_scores, final_score, suggestions,
    exc, result, response, stages, calls_left, instance, instances, log>>
ai_frame == <<ai_pc, ai_data, raw_output, ai_exc, ai_result>>
locals == <<criteria_scores, final_score, suggestions, exc, result>>

\* the response of both failure returns
DegradedResponse(rid, error) ==
  [resume_id |-> rid, ats_score |-> 0, error |-> error,
   score_breakdown_for_sidebar |-> EmptyDict.kv, report_details |-> <<>>]
\* {"resume_id": resume_id, **structured_output}
MergedResponse(rid, structured_output) ==
  [resume_id |-> rid, ats_score |-> structured_output.ats_score,
   score_breakdown_for_sidebar |-> structured_output.score_breakdown_for_sidebar,
   report_details |-> structured_output.report_details]
\* sum(details.get("score", 0) for details in criteria_scores.values())
total_score(cs) == RSum([i \in 1..Len(SetToSeq(DOMAIN cs)) |-> cs[SetToSeq(DOMAIN cs)[i]].score])
max_score(cs) == RSum([i \in 1..Len(SetToSeq(DOMAIN cs)) |-> cs[SetToSeq(DOMAIN cs)[i]].max])
\* int(...) of the clamped sum without round(...)
FinalScoreTruncated(cs) == Floor(RMin(RMax(Whole(0), total_score(cs)), Whole(100)))
\* int(round(min(max(0, total_score), 100)))
FinalScore(cs) == Round(RMin(RMax(Whole(0), total_score(cs)), Whole(100)))

\* calculate_ats_score run from call to return with nothing else running
calculate_ats_score(rid, data) ==
  LET scored == calculate_criteria_scores(data)
      final == FinalScore(scored.value)
      suggested == generate_structured_suggestions(scored.value, final, data)
      structured == structure_frontend_response(final, scored.value, suggested.value)
      TraceBack(e) == DegradedResponse(rid, "An unexpected error occurred during scoring: " \o e)
  IN IF ~Truthy(data) THEN DegradedResponse(rid, "Processed resume data missing.")
     ELSE IF scored.raised THEN TraceBack(scored.exc)
     ELSE IF suggested.raised THEN TraceBack(suggested.exc)
     ELSE IF structured.raised THEN TraceBack(structured.exc)
     ELSE MergedResponse(rid, structured.value)

InitWith(budget) ==
  /\ pc = [p \in Threads |-> "idle"]
  /\ resume_id = [p \in Threads |-> Unset]
  /\ processed_resume_data = [p \in Threads |-> Unset]
  /\ criteria_scores = [p \in Threads |-> Unset]
  /\ final_score = [p \in Threads |-> Unset]
  /\ suggestions = [p \in Threads |-> Unset]
  /\ exc = [p \in Threads |-> Unset]
  /\ result = [p \in Threads |-> Unset]
  /\ response = [p \in Threads |-> Unset]
  /\ stages = [p \in Threads |-> <<>>]
  /\ calls_left = budget
  /\ instance = [p \in Threads |-> 1]
  /\ instances = 1
  /\ log = {}
  /\ ai_pc = "idle"
  /\ ai_data = Unset
  /\ raw_output = Unset
  /\ ai_exc = Unset
  /\ ai_result = Unset

\* AtsScoringService(): a further instance; __init__ sets only the
\* attributes above, which no method assigns again
NewInstance(p) ==
  /\ pc[p] \in {"idle", "done"}
  /\ calls_left[p] > 0
  /\ instances < MaxCalls
  /\ instances' = instances + 1
  /\ instance' = [instance EXCEPT ![p] = instances + 1]
  /\ UNCHANGED <<ai_frame, pc, resume_id, processed_resume_data, locals, response, stages,
                 calls_left, log>>

\* the caller calls calculate_ats_score(rid, data)
Invoke(p, pool) ==
  /\ pc[p] \in {"idle", "done"}
  /\ calls_left[p] > 0
  /\ \E rid \in ResumeIds, data \in pool :
       /\ resume_id' = [resume_id EXCEPT ![p] = rid]
       /\ processed_resume_data' = [processed_resume_data EXCEPT ![p] = data]
  /\ calls_left' = [calls_left EXCEPT ![p] = @ - 1]
  /\ stages' = [stages EXCEPT ![p] = <<>>]
  /\ pc' = [pc EXCEPT ![p] = "validate"]
  /\ UNCHANGED <<ai_frame, locals, response, instance, instances, log>>

\* the guard written "if processed_resume_data is None"
ValidateNoneOnly(p) ==
  /\ pc[p] = "validate"
  /\ IF processed_resume_data[p] = None
     THEN /\ result' = [result EXCEPT ![p] =
                          DegradedResponse(resume_id[p], "Processed resume data missing.")]
          /\ pc' = [pc EXCEPT ![p] = "return"]
     ELSE /\ pc' = [pc EXCEPT ![p] = "score"]
          /\ UNCHANGED result
  /\ UNCHANGED <<ai_frame, resume_id, processed_resume_data, criteria_scores, final_score, suggestions,
                 exc, response, stages, calls_left, instance, instances, log>>
\* the logging try block, then "if not processed_resume_data: return ..."
Validate(p) ==
  /\ pc[p] = "validate"
  /\ IF ~Truthy(processed_resume_data[p])
     THEN /\ result' = [result EXCEPT ![p] =
                          DegradedResponse(resume_id[p], "Processed resume data missing.")]
          /\ pc' = [pc EXCEPT ![p] = "return"]
     ELSE /\ pc' = [pc EXCEPT ![p] = "score"]
          /\ UNCHANGED result
  /\ UNCHANGED <<ai_frame, resume_id, processed_resume_data, criteria_scores, final_score, suggestions,
                 exc, response, stages, calls_left, instance, instances, log>>

\* Step 1: criteria_scores = self._calculate_criteria_scores(...)
CalculateCriteriaScores(p) ==
  /\ pc[p] = "score"
  /\ LET outcome == calculate_criteria_scores(processed_resume_data[p])
     IN IF outcome.raised
        THEN /\ exc' = [exc EXCEPT ![p] = outcome]
             /\ pc' = [pc EXCEPT ![p] = "except"]
             /\ UNCHANGED criteria_scores
        ELSE /\ criteria_scores' = [criteria_scores EXCEPT ![p] = outcome.value]
             /\ pc' = [pc EXCEPT ![p] = "aggregate"]
             /\ UNCHANGED exc
  /\ stages' = [stages EXCEPT ![p] = Append(@, "scorer")]
  /\ UNCHANGED <<ai_frame, resume_id, processed_resume_data, final_score, suggestions, result,
                 response, calls_left, instance, instances, log>>

\* Step 2 with the total kept on the service and never reset: the score of
\* the caller's previous call is still in it
ComputeFinalScoreCarried(p) ==
  /\ pc[p] = "aggregate"
  /\ LET carried == IF response[p] = Unset THEN 0 ELSE response[p].ats_score
         total == RAdd(total_score(criteria_scores[p]), Whole(carried))
     IN final_score' = [final_score EXCEPT ![p] = Round(RMin(RMax(Whole(0), total), Whole(100)))]
  /\ pc' = [pc EXCEPT ![p] = "suggest"]
  /\ UNCHANGED <<ai_frame, resume_id, processed_resume_data, criteria_scores, suggestions, exc, result,
                 response, stages, calls_left, instance, instances, log>>
\* Step 2: total_score, max_score, final_score
ComputeFinalScore(p) ==
  /\ pc[p] = "aggregate"
  /\ final_score' = [final_score EXCEPT ![p] = FinalScore(criteria_scores[p])]
  /\ pc' = [pc EXCEPT ![p] = "suggest"]
  /\ UNCHANGED <<ai_frame, resume_id, processed_resume_data, criteria_scores, suggestions, exc, result,
                 response, stages, calls_left, instance, instances, log>>

\* Step 3 with a generator that reverses, in place, the list of passed
\* sections it reads from the criteria
GenerateSuggestionsInPlace(p) ==
  /\ pc[p] = "suggest"
  /\ LET outcome == generate_structured_suggestions(criteria_scores[p], final_score[p],
                                                    processed_resume_data[p])
         passed == criteria_scores[p].section_completeness.passed
         reversed == [i \in 1..Len(passed) |-> passed[Len(passed) + 1 - i]]
     IN /\ suggestions' = [suggestions EXCEPT ![p] = outcome.value]
        /\ criteria_scores' =
             [criteria_scores EXCEPT ![p].section_completeness.passed = reversed]
        /\ pc' = [pc EXCEPT ![p] = "structure"]
  /\ stages' = [stages EXCEPT ![p] = Append(@, "generator")]
  /\ UNCHANGED <<ai_frame, resume_id, processed_resume_data, final_score, result, exc,
                 response, calls_left, instance, instances, log>>
\* Step 3: suggestions = self._generate_structured_suggestions(...)
GenerateSuggestions(p) ==
  /\ pc[p] = "suggest"
  /\ LET outcome == generate_structured_suggestions(criteria_scores[p], final_score[p],
                                                    processed_resume_data[p])
     IN IF outcome.raised
        THEN /\ exc' = [exc EXCEPT ![p] = outcome]
             /\ pc' = [pc EXCEPT ![p] = "except"]
             /\ UNCHANGED suggestions
        ELSE /\ suggestions' = [suggestions EXCEPT ![p] = outcome.value]
             /\ pc' = [pc EXCEPT ![p] = "structure"]
             /\ UNCHANGED exc
  /\ stages' = [stages EXCEPT ![p] = Append(@, "generator")]
  /\ UNCHANGED <<ai_frame, resume_id, processed_resume_data, criteria_scores, final_score, result,
                 response, calls_left, instance, instances, log>>

\* Step 4 with the criteria kept in an attribute of the service, which
\* another call in flight has overwritten
StructureResponseShared(p) ==
  /\ pc[p] = "structure"
  /\ LET others == {q \in Threads \ {p} : criteria_scores[q] # Unset}
         writer == IF others = {} THEN p ELSE CHOOSE q \in others : TRUE
         outcome == structure_frontend_response(final_score[p], criteria_scores[writer],
                                                suggestions[p])
     IN /\ result' = [result EXCEPT ![p] = MergedResponse(resume_id[p], outcome.value)]
        /\ pc' = [pc EXCEPT ![p] = "return"]
  /\ stages' = [stages EXCEPT ![p] = Append(@, "structurer")]
  /\ UNCHANGED <<ai_frame, resume_id, processed_resume_data, criteria_scores, final_score, suggestions,
                 exc, response, calls_left, instance, instances, log>>
\* Step 4: structured_output = self._structure_frontend_response(...) and
\* the return of the merged response
StructureResponse(p) ==
  /\ pc[p] = "structure"
  /\ LET outcome == structure_frontend_response(final_score[p], criteria_scores[p],
                                                suggestions[p])
     IN IF outcome.raised
        THEN /\ exc' = [exc EXCEPT ![p] = outcome]
             /\ pc' = [pc EXCEPT ![p] = "except"]
             /\ UNCHANGED result
        ELSE /\ result' = [result EXCEPT ![p] = MergedResponse(resume_id[p], outcome.value)]
             /\ pc' = [pc EXCEPT ![p] = "return"]
             /\ UNCHANGED exc
  /\ stages' = [stages EXCEPT ![p] = Append(@, "structurer")]
  /\ UNCHANGED <<ai_frame, resume_id, processed_resume_data, criteria_scores, final_score, suggestions,
                 response, calls_left, instance, instances, log>>

\* an except clause that returns the error without the empty breakdown and
\* the empty report
HandleExceptionPartial(p) ==
  /\ pc[p] = "except"
  /\ result' = [result EXCEPT ![p] =
                  [resume_id |-> resume_id[p], ats_score |-> 0,
                   error |-> "An unexpected error occurred during scoring: " \o exc[p].exc]]
  /\ pc' = [pc EXCEPT ![p] = "return"]
  /\ UNCHANGED <<ai_frame, resume_id, processed_resume_data, criteria_scores, final_score, suggestions,
                 exc, response, stages, calls_left, instance, instances, log>>
\* except Exception as e: return the degraded response
HandleException(p) ==
  /\ pc[p] = "except"
  /\ result' = [result EXCEPT ![p] =
                  DegradedResponse(resume_id[p],
                                   "An unexpected error occurred during scoring: "
                                   \o exc[p].exc)]
  /\ pc' = [pc EXCEPT ![p] = "return"]
  /\ UNCHANGED <<ai_frame, resume_id, processed_resume_data, criteria_scores, final_score, suggestions,
                 exc, response, stages, calls_left, instance, instances, log>>

\* the frame is gone and the caller has the response
Return(p) ==
  /\ pc[p] = "return"
  /\ response' = [response EXCEPT ![p] = result[p]]
  /\ log' = log \cup {[call |-> Cardinality(log) + 1, resume_id |-> resume_id[p],
                       data |-> processed_resume_data[p], instance |-> instance[p],
                       response |-> result[p]]}
  /\ criteria_scores' = [criteria_scores EXCEPT ![p] = Unset]
  /\ final_score' = [final_score EXCEPT ![p] = Unset]
  /\ suggestions' = [suggestions EXCEPT ![p] = Unset]
  /\ exc' = [exc EXCEPT ![p] = Unset]
  /\ result' = [result EXCEPT ![p] = Unset]
  /\ pc' = [pc EXCEPT ![p] = "done"]
  /\ UNCHANGED <<ai_frame, resume_id, processed_resume_data, stages, calls_left, instance, instances>>

Step(p) ==
  \/ Validate(p)
  \/ CalculateCriteriaScores(p)
  \/ ComputeFinalScore(p)
  \/ GenerateSuggestions(p)
  \/ StructureResponse(p)
  \/ HandleException(p)
  \/ Return(p)

\* one call with any input
Init == InitWith([p \in Threads |-> IF p = 1 THEN 1 ELSE 0])
Next == Invoke(1, Inputs) \/ Step(1)
Spec == Init /\ [][Next]_vars

\* MaxCalls calls one after the other, on the same or on a fresh instance
InitRepeat == InitWith([p \in Threads |-> IF p = 1 THEN MaxCalls ELSE 0])
NextRepeat == NewInstance(1) \/ Invoke(1, RepeatInputs) \/ Step(1)
SpecRepeat == InitRepeat /\ [][NextRepeat]_vars

\* one call by each thread, all on one instance
InitConcurrent == InitWith([p \in Threads |-> 1])
NextConcurrent == \E p \in Threads : Invoke(p, CoreInputs) \/ Step(p)
SpecConcurrent == InitConcurrent /\ [][NextConcurrent]_vars

(***************************************************************************)
(* The AI scoring path: AiAtsScoringService.get_ai_ats_score, one action   *)
(* per step of the method.  The agent manager and json_repair are outside  *)
(* the repository: what they return or raise is any of a set of outcomes.  *)
(***************************************************************************)
Raises(e) == [k |-> "raises", exc |-> e]
\* a response in the shape the prompt asks for
AiReport ==
  PyDict(("ats_score" :> PyInt(70)) @@ ("score_breakdown_for_sidebar" :> EmptyDict)
         @@ ("report_details" :> PyList(<<>>)))
S_not_json == "not json"
\* await self.json_agent_manager.run(...): the provider or the strategy
\* raises, or the parsed value comes back, a dict or not
ProviderOutcomes ==
  {Raises("ProviderError"), Raises("StrategyError"),
   AiReport, EmptyDict, PyStr(S_not_json), PyList(<<>>), None}
\* json.loads(repair_json(str(raw_output))): the JSON value of the repaired
\* text, or JSONDecodeError
RepairOutcomes ==
  {Raises("JSONDecodeError"), AiReport, PyList(<<>>), PyStr(""), None}
\* the return of the except clause
AiErrorResponse(e) ==
  PyDict(("ats_score" :> PyInt(0))
         @@ ("error" :> PyStr("Failed to generate AI score: " \o e))
         @@ ("score_breakdown_for_sidebar" :> EmptyDict)
         @@ ("report_details" :> PyList(<<>>)))
\* the records the caller passes: any value under "Personal Data"
AiInputs ==
  CoreInputs
  \cup {Resume(pd, Absent, Absent, Absent, Absent, Absent, Absent) : pd \in PersonalDataValues}

\* the caller calls get_ai_ats_score(data)
AiInvoke ==
  /\ ai_pc = "idle"
  /\ \E data \in AiInputs : ai_data' = data
  /\ ai_pc' = "resume_id"
  /\ UNCHANGED <<engine_frame, raw_output, ai_exc, ai_result>>
\* resume_id = processed_resume_data.get("Personal Data", {}).get("email", ...),
\* before the try: .get on a value that is not a dict raises to the caller
AiResumeId ==
  /\ ai_pc = "resume_id"
  /\ IF IsDict(GetOr(ai_data, "Personal Data", EmptyDict))
       THEN /\ ai_pc' = "run"
            /\ UNCHANGED ai_exc
       ELSE /\ ai_pc' = "raised"
            /\ ai_exc' = Raises("AttributeError")
  /\ UNCHANGED <<engine_frame, ai_data, raw_output, ai_result>>
\* inside the try: the prompt is formatted and the agent manager is awaited
AiRun ==
  /\ ai_pc = "run"
  /\ \E outcome \in ProviderOutcomes :
       IF outcome.k = "raises"
         THEN /\ ai_exc' = outcome
              /\ ai_pc' = "except"
              /\ UNCHANGED raw_output
         ELSE /\ raw_output' = outcome
              /\ ai_pc' = "check"
              /\ UNCHANGED ai_exc
  /\ UNCHANGED <<engine_frame, ai_data, ai_result>>
\* if isinstance(raw_output, dict): return raw_output
AiCheck ==
  /\ ai_pc = "check"
  /\ IF IsDict(raw_output)
       THEN /\ ai_result' = raw_output
            /\ ai_pc' = "return"
       ELSE /\ ai_pc' = "repair"
            /\ UNCHANGED ai_result
  /\ UNCHANGED <<engine_frame, ai_data, raw_output, ai_exc>>
\* the fallback: repair_json, json.loads, return parsed_json
AiRepair ==
  /\ ai_pc = "repair"
  /\ \E outcome \in RepairOutcomes :
       IF outcome.k = "raises"
         THEN /\ ai_exc' = outcome
              /\ ai_pc' = "except"
              /\ UNCHANGED ai_result
         ELSE /\ ai_result' = outcome
              /\ ai_pc' = "return"
              /\ UNCHANGED ai_exc
  /\ UNCHANGED <<engine_frame, ai_data, raw_output>>
\* except Exception as e: return the error structure
AiExcept ==
  /\ ai_pc = "except"
  /\ ai_result' = AiErrorResponse(ai_exc.exc)
  /\ ai_pc' = "return"
  /\ UNCHANGED <<engine_frame, ai_data, raw_output, ai_exc>>
\* the caller has the value
AiReturn ==
  /\ ai_pc = "return"
  /\ ai_pc' = "done"
  /\ UNCHANGED <<engine_frame, ai_data, raw_output, ai_exc, ai_result>>

\* one call of get_ai_ats_score with any input
InitAi == InitWith([p \in Threads |-> 0])
NextAi == AiInvoke \/ AiResumeId \/ AiRun \/ AiCheck \/ AiRepair \/ AiExcept \/ AiReturn
SpecAi == InitAi /\ [][NextAi]_vars

(***************************************************************************)
(* Properties of the orchestrator and of the three stages.                 *)
(***************************************************************************)
\* the call of thread p has returned to its caller
HasReturned(p) == pc[p] = "done"
\* r is the error response for resume rid
IsDegraded(r, rid) ==
  /\ DOMAIN r = {"resume_id", "ats_score", "error", "score_breakdown_for_sidebar",
                 "report_details"}
  /\ r.resume_id = rid
  /\ r.ats_score = 0
  /\ r.error # ""
  /\ DOMAIN r.score_breakdown_for_sidebar = {}
  /\ Len(r.report_details) = 0
HasError(r) == "error" \in DOMAIN r
\* the ten scores added one by one
SumOfScores(cs) ==
  RAdd(cs.section_completeness.score,
  RAdd(cs.contact_info_quality.score,
  RAdd(cs.profile_summary_quality.score,
  RAdd(cs.keyword_density.score,
  RAdd(cs.experience_details_present.score,
  RAdd(cs.action_verbs.score,
  RAdd(cs.quantifiable_results.score,
  RAdd(cs.bullet_conciseness.score,
  RAdd(cs.grammar_indicators.score, cs.date_consistency.score)))))))))
\* n is an integer nearest to the rational r
Nearest(n, r) == n \in Int /\ 2 * Abs(n * r.den - r.num) <= r.den
Clamped(r) ==
  IF r.num < 0 THEN Whole(0) ELSE IF r.num > 100 * r.den THEN Whole(100) ELSE r

\* C1: the ats_score of every response is an integer from 0 to 100, and on
\* the normal path it is the sum of the ten criterion scores, clamped to
\* [0,100] and rounded to an integer.
C1_ScoreIsClampedRoundedSum ==
  \A p \in Threads :
    pc[p] = "return" =>
      /\ result[p].ats_score \in 0..100
      /\ ~HasError(result[p]) =>
           Nearest(result[p].ats_score, Clamped(SumOfScores(criteria_scores[p])))
\* a normal response whose sum of scores is no integer
C1_Witness ==
  \E p \in Threads :
    /\ pc[p] = "return"
    /\ ~HasError(result[p])
    /\ SumOfScores(criteria_scores[p]).den # 1
    /\ result[p].ats_score > 0

\* C2: an exception raised by a stage never leaves the call: once raised it
\* is in the except clause, and the call returns the degraded response with
\* the caller's resume_id, score 0, a non-empty error, an empty breakdown and
\* an empty report.
C2_ExceptionBecomesDegradedResponse ==
  \A p \in Threads :
    exc[p] # Unset =>
      /\ pc[p] \in {"except", "return"}
      /\ pc[p] = "return" => IsDegraded(result[p], resume_id[p])
\* the scorer raised and the call is about to return
C2_Witness ==
  \E p \in Threads :
    /\ pc[p] = "return"
    /\ exc[p] # Unset
    /\ stages[p] = <<"scorer">>

\* C3: for an absent or empty input the call returns the degraded response
\* and has invoked neither the scorer, nor the generator, nor the structurer.
C3_EmptyInputBypassesPipeline ==
  \A p \in Threads :
    (HasReturned(p) /\ ~Truthy(processed_resume_data[p])) =>
      /\ IsDegraded(response[p], resume_id[p])
      /\ stages[p] = <<>>
\* a call with the empty record has returned
C3_Witness ==
  \E p \in Threads : HasReturned(p) /\ processed_resume_data[p] = EmptyDict

\* C4: two calls with the same resume_id and the same input return the same
\* response, on the same instance or on another one, whatever was called in
\* between.
C4_SameInputSameResponse ==
  \A a, b \in log :
    (a.resume_id = b.resume_id /\ a.data = b.data) => a.response = b.response
\* the same scored input twice, the second time on a fresh instance, with a
\* call for another input in between
C4_Witness ==
  \E a, b, c \in log :
    /\ a.call < c.call /\ c.call < b.call
    /\ a.resume_id = b.resume_id /\ a.data = b.data
    /\ c.data # a.data
    /\ a.instance # b.instance
    /\ ~HasError(a.response)

\* C5: with several calls in flight on one instance, every call returns the
\* response it returns when it runs alone, and no step of one call changes
\* the arguments, the locals or the result of another.
C5_ConcurrentCallsAreIsolated ==
  /\ [](\A p \in Threads :
          HasReturned(p) =>
            response[p] = calculate_ats_score(resume_id[p], processed_resume_data[p]))
  /\ [][\A p \in Threads :
          pc'[p] = pc[p] =>
            /\ resume_id'[p] = resume_id[p]
            /\ processed_resume_data'[p] = processed_resume_data[p]
            /\ criteria_scores'[p] = criteria_scores[p]
            /\ final_score'[p] = final_score[p]
            /\ suggestions'[p] = suggestions[p]
            /\ exc'[p] = exc[p]
            /\ result'[p] = result[p]
            /\ response'[p] = response[p]]_vars
\* one call has returned a scored response while another call, for another
\* input, holds its criteria
C5_Witness ==
  \E p, q \in Threads :
    /\ p # q
    /\ HasReturned(p) /\ ~HasError(response[p])
    /\ pc[q] \in {"suggest", "structure"}
    /\ processed_resume_data[q] # processed_resume_data[p]

\* C6: the mapping the scorer returns has exactly the ten criteria, and
\* their max values add up to 100.
C6_TenCriteriaMaxHundred ==
  \A p \in Threads :
    criteria_scores[p] # Unset =>
      /\ Cardinality(DOMAIN criteria_scores[p]) = 10
      /\ DOMAIN criteria_scores[p] = CriterionNames
      /\ max_score(criteria_scores[p]) = Whole(100)

\* the type a field is meant to have
ExpectedKind ==
  [k \in {"Personal Data", "Profile Summary", "Experiences", "Education", "Skills",
          "Projects", "Extracted Keywords"} |->
     IF k = "Personal Data" THEN "dict" ELSE IF k = "Profile Summary" THEN "str" ELSE "list"]
\* the fields of the input that hold a value of another type
WrongTypedFields(data) ==
  {key \in DOMAIN data.kv \cap DOMAIN ExpectedKind :
     data.kv[key].k \notin {ExpectedKind[key], "none"}}
\* the input with one field removed
Without(data, key) == PyDict([k \in DOMAIN data.kv \ {key} |-> data.kv[k]])
\* the scorer has just run on a non-empty record
ScorerRanOnRecord(p) ==
  /\ pc[p] \in {"aggregate", "except"}
  /\ stages[p] = <<"scorer">>
  /\ IsDict(processed_resume_data[p])
  /\ Truthy(processed_resume_data[p])

\* C7: for every non-empty input record, whatever the types of its fields,
\* the scorer raises nothing and returns a complete mapping of the criteria.
C7_ScorerNeverRaises ==
  \A p \in Threads :
    ScorerRanOnRecord(p) =>
      /\ pc[p] = "aggregate"
      /\ exc[p] = Unset
      /\ DOMAIN criteria_scores[p] = CriterionNames

\* C8: a field holding a value of the wrong type counts as absent: the
\* scorer raises nothing, and every criterion score is the score of the same
\* input without that field.
C8_WrongTypeCountsAsAbsent ==
  \A p \in Threads :
    ScorerRanOnRecord(p) =>
      \A key \in WrongTypedFields(processed_resume_data[p]) :
        LET alone == calculate_criteria_scores(Without(processed_resume_data[p], key))
        IN /\ pc[p] = "aggregate"
           /\ ~alone.raised
           /\ \A c \in CriterionNames : criteria_scores[p][c].score = alone.value[c].score

\* C9: for an input record without any bullet the action-verb, the
\* quantifiable-results, the bullet-conciseness and the grammar-indicator
\* scores are 0 and the response is not the degraded one.
C9_NoBulletsScoreZero ==
  \A p \in Threads :
    ( /\ pc[p] = "return"
      /\ IsDict(processed_resume_data[p])
      /\ Truthy(processed_resume_data[p])
      /\ Len(AllBullets(processed_resume_data[p])) = 0 ) =>
      /\ ~HasError(result[p])
      /\ criteria_scores[p].action_verbs.score = Whole(0)
      /\ criteria_scores[p].quantifiable_results.score = Whole(0)
      /\ criteria_scores[p].bullet_conciseness.score = Whole(0)
      /\ criteria_scores[p].grammar_indicators.score = Whole(0)

\* C10: a response that is not degraded has the four categories CONTENT,
\* SECTION, ATS ESSENTIALS and TAILORING in this order, TAILORING with no
\* percentage and four sub-items of status info, and the four cards Summary,
\* Work Experience, Skills and Formatting & Style in this order.
C10_ResponseShape ==
  \A p \in Threads :
    (pc[p] = "return" /\ ~HasError(result[p])) =>
      LET categories == result[p].score_breakdown_for_sidebar.categories
          cards == result[p].report_details
      IN /\ [i \in 1..Len(categories) |-> categories[i].title]
              = <<"CONTENT", "SECTION", "ATS ESSENTIALS", "TAILORING">>
         /\ categories[4].percentage = None
         /\ Len(categories[4].sub_items) = 4
         /\ \A i \in 1..4 : categories[4].sub_items[i].status = "info"
         /\ [i \in 1..Len(cards) |-> cards[i].title]
              = <<"Summary", "Work Experience", "Skills", "Formatting & Style">>
\* a scored response for an input without any bullet
C10_Witness ==
  \E p \in Threads :
    /\ pc[p] = "return"
    /\ ~HasError(result[p])
    /\ criteria_scores[p].action_verbs.total_bullets = 0

\* the number of sub-items of a category whose status is fail
FailCount(category) ==
  Cardinality({i \in 1..Len(category.sub_items) : category.sub_items[i].status = "fail"})
\* C11: in a response that is not degraded, total_issues is the number of
\* sub-items of status fail over all four categories of the breakdown.
C11_TotalIssuesCountsFails ==
  \A p \in Threads :
    (pc[p] = "return" /\ ~HasError(result[p])) =>
      LET sidebar == result[p].score_breakdown_for_sidebar
      IN sidebar.total_issues
           = FailCount(sidebar.categories[1]) + FailCount(sidebar.categories[2])
             + FailCount(sidebar.categories[3]) + FailCount(sidebar.categories[4])
\* a scored response with a failing sub-item in each of the first three
\* categories, the header hyperlink among them
C11_Witness ==
  \E p \in Threads :
    /\ pc[p] = "return"
    /\ ~HasError(result[p])
    /\ LET categories == result[p].score_breakdown_for_sidebar.categories
       IN /\ FailCount(categories[1]) > 0
          /\ FailCount(categories[2]) > 0
          /\ categories[3].sub_items[4].status = "fail"

\* the six sections of the résumé
SectionKeys ==
  {"Personal Data", "Profile Summary", "Experiences", "Education", "Skills", "Projects"}
\* a value that is there and is no empty text, empty sequence or empty record
PresentAndNonEmpty(v) ==
  /\ v.k \notin {"absent", "none"}
  /\ v.k \in {"str", "list", "dict"} => Truthy(v)
\* the scorer has returned the criteria of thread p
ScorerReturned(p) == pc[p] = "aggregate" /\ stages[p] = <<"scorer">>

\* C12: the section-completeness score is 15/6 for each of the six sections
\* that is present and non-empty, at most 15; an empty text, an empty
\* sequence and an empty record count like an absent section.
C12_SectionCompletenessCountsNonEmpty ==
  \A p \in Threads :
    ScorerReturned(p) =>
      LET data == processed_resume_data[p]
          present == {key \in SectionKeys : PresentAndNonEmpty(Get(data, key))}
      IN criteria_scores[p].section_completeness.score
           = RMin(RDiv(Whole(15 * Cardinality(present)), Whole(6)), Whole(15))

\* the text held under key of the Personal Data record, or no text
ContactText(data, key) ==
  LET personal_data == GetOr(data, "Personal Data", EmptyDict)
      value == IF IsDict(personal_data) THEN Get(personal_data, key) ELSE None
  IN IF IsStr(value) THEN value.s ELSE <<>>
EmailHasShape(data) == email_pattern_match(ContactText(data, "email"))
PhoneIsFound(data) == phone_pattern_search(ContactText(data, "phone"))
LinkIsFound(data) ==
  LET link == Lower(ContactText(data, "linkedin"))
  IN Contains(link, <<"l", "i", "n", "k", "e", "d", "i", "n", ".", "c", "o", "m">>)
     /\ link # <<"s", "t", "r", "i", "n", "g">>

\* C13: the contact score is the sum of three independent parts, 4 for an
\* email of the email shape, 4 for a phone that is found and 2 for a link
\* that holds the known domain and is not the placeholder; it is 10 exactly
\* when all three hold.
C13_ContactScoreIsSumOfParts ==
  \A p \in Threads :
    ScorerReturned(p) =>
      LET data == processed_resume_data[p]
          score == criteria_scores[p].contact_info_quality.score
      IN /\ score = Whole((IF EmailHasShape(data) THEN 4 ELSE 0)
                          + (IF PhoneIsFound(data) THEN 4 ELSE 0)
                          + (IF LinkIsFound(data) THEN 2 ELSE 0))
         /\ score = Whole(10)
              <=> (EmailHasShape(data) /\ PhoneIsFound(data) /\ LinkIsFound(data))
\* the link counts although the email does not, and the phone although the
\* link does not
C13_Witness ==
  /\ \E p \in Threads :
       /\ ScorerReturned(p)
       /\ criteria_scores[p].contact_info_quality.score = Whole(6)
       /\ ~EmailHasShape(processed_resume_data[p])

\* the number of words of s: the places where a run of non-blank characters
\* starts
WordCount(s) ==
  Cardinality({i \in 1..Len(s) :
                 s[i] \notin Whitespace /\ (i = 1 \/ s[i - 1] \in Whitespace)})
\* the word count of the summary of the input, 0 when there is no text
SummaryWordCount(data) ==
  LET summary == Get(data, "Profile Summary")
  IN IF IsStr(summary) THEN WordCount(summary.s) ELSE 0

\* C14: the profile-summary score depends on the word count n of the summary
\* only: 5 when 25 <= n <= 75, 2.5 when 10 <= n <= 24 or 76 <= n <= 100, and
\* 0 for every other n and when there is no summary.
C14_SummaryScoreByWordCount ==
  \A p \in Threads :
    ScorerReturned(p) =>
      LET n == SummaryWordCount(processed_resume_data[p])
      IN criteria_scores[p].profile_summary_quality.score
           = IF n \in 25..75 THEN Whole(5)
             ELSE IF n \in 10..24 \/ n \in 76..100 THEN Rat(5, 2)
             ELSE Whole(0)
\* a summary of exactly 100 words has been scored 2.5
C14_Witness ==
  \E p \in Threads :
    /\ ScorerReturned(p)
    /\ SummaryWordCount(processed_resume_data[p]) = 100
    /\ criteria_scores[p].profile_summary_quality.score = Rat(5, 2)

\* the canonical shape of a date string: full date, year-month, month/year,
\* "Month YYYY" or the literal Present; anything else is unknown
CanonicalShape(d) ==
  IF IsYMD(d) THEN "full date"
  ELSE IF IsYM(d) THEN "year-month"
  ELSE IF IsMY(d) THEN "month/year"
  ELSE IF IsMonthYear(d) THEN "month year"
  ELSE IF Lower(d) = PresentWord THEN "present"
  ELSE "unknown"
\* the shapes of the date strings of the input
ShapesOf(data) ==
  LET dates == date_strings(data)
  IN {CanonicalShape(dates[i]) : i \in 1..Len(dates)}
\* the recognized shapes of the input, and those other than Present
RecognizedShapes(data) == ShapesOf(data) \ {"unknown"}
DatedShapes(data) == RecognizedShapes(data) \ {"present"}

\* C15: when at least one date string is recognized and all recognized
\* formats other than Present are the same, the dates are consistent and the
\* date score is 5; when two recognized strings have different formats other
\* than Present, the dates are inconsistent and the score is 0.
C15_DateConsistencyByFormat ==
  \A p \in Threads :
    ScorerReturned(p) =>
      LET data == processed_resume_data[p]
          item == criteria_scores[p].date_consistency
      IN /\ (RecognizedShapes(data) # {} /\ Cardinality(DatedShapes(data)) <= 1)
              => (item.consistent /\ item.score = Whole(5))
         /\ Cardinality(DatedShapes(data)) >= 2
              => (~item.consistent /\ item.score = Whole(0))
\* year-month dates together with Present have been judged consistent
C15_Witness ==
  \E p \in Threads :
    /\ ScorerReturned(p)
    /\ RecognizedShapes(processed_resume_data[p]) = {"year-month", "present"}
    /\ criteria_scores[p].date_consistency.consistent
    /\ criteria_scores[p].date_consistency.score = Whole(5)

\* C16: no stage changes what it is handed: while a call runs its input
\* stays as it was passed in, the steps of the generator and of the
\* structurer leave the criteria as the scorer returned them, and the step
\* of the structurer leaves the suggestions as the generator returned them.
C16_StagesLeaveArgumentsUnchanged ==
  [][\A p \in Threads :
       /\ pc[p] \notin {"idle", "done"}
            => processed_resume_data'[p] = processed_resume_data[p]
       /\ pc[p] \in {"suggest", "structure"} => criteria_scores'[p] = criteria_scores[p]
       /\ pc[p] = "structure" => suggestions'[p] = suggestions[p]]_vars
\* the structurer has run, and the call still holds the criteria the scorer
\* returns for the input, with several sections passed, and the suggestions
\* the generator returns for them
C16_Witness ==
  \E p \in Threads :
    /\ pc[p] = "return"
    /\ stages[p] = <<"scorer", "generator", "structurer">>
    /\ Len(criteria_scores[p].section_completeness.passed) > 1
    /\ criteria_scores[p] = calculate_criteria_scores(processed_resume_data[p]).value
    /\ suggestions[p]
         = generate_structured_suggestions(criteria_scores[p], final_score[p],
                                           processed_resume_data[p]).value

\* the generator has returned the suggestions of thread p
GeneratorReturned(p) ==
  pc[p] = "structure" /\ stages[p] = <<"scorer", "generator">>

\* C17: the mapping the generator returns holds the category Overall with a
\* message, only categories out of the eight fixed ones, and no category
\* with an empty list: a category that got no suggestion is not in it.
C17_SuggestionsHaveOverallAndNoEmptyCategory ==
  \A p \in Threads :
    GeneratorReturned(p) =>
      /\ "Overall" \in DOMAIN suggestions[p]
      /\ DOMAIN suggestions[p] \subseteq Categories
      /\ Cardinality(Categories) = 8
      /\ \A cat \in DOMAIN suggestions[p] : Len(suggestions[p][cat]) > 0
\* the generator has returned some categories and left out Education and
\* Contact Info, which got no suggestion
C17_Witness ==
  \E p \in Threads :
    /\ GeneratorReturned(p)
    /\ Cardinality(DOMAIN suggestions[p]) > 2
    /\ "Education" \notin DOMAIN suggestions[p]
    /\ "Contact Info" \notin DOMAIN suggestions[p]

\* C18: a date string of none of the five canonical shapes is unknown and
\* has no part in the judgment: when there are date strings and none of them
\* has a canonical shape, the date score is 0 and the dates are inconsistent;
\* when some have one, the judgment is that of the recognized ones alone;
\* when there is no date string at all the score is 2.5.
C18_UnknownDatesAreIgnored ==
  \A p \in Threads :
    ScorerReturned(p) =>
      LET data == processed_resume_data[p]
          item == criteria_scores[p].date_consistency
      IN /\ ShapesOf(data) = {"unknown"} => (item.score = Whole(0) /\ ~item.consistent)
         /\ ShapesOf(data) = {} => item.score = Rat(5, 2)
         /\ RecognizedShapes(data) # {}
              => (item.consistent <=> Cardinality(DatedShapes(data)) <= 1)

\* the score of the item is below num/den of its max
Below(item, num, den) == RLt(item.score, RMul(item.max, Rat(num, den)))
\* the suggestions of thread p hold the category
HasSuggestion(p, cat) == cat \in DOMAIN suggestions[p]
\* the criteria whose suggestions do not depend on the bullets, each with a
\* suggestion in its category when it is below its threshold; the summary
\* has its suggestion in one of the categories of SummaryCategories
NonBulletCriteriaGetSuggestions(p, SummaryCategories) ==
  LET cs == criteria_scores[p]
  IN /\ Below(cs.section_completeness, 1, 1) => HasSuggestion(p, "Structure & Sections")
     /\ Below(cs.contact_info_quality, 8, 10) => HasSuggestion(p, "Contact Info")
     /\ Below(cs.profile_summary_quality, 1, 1)
          => \E cat \in SummaryCategories : HasSuggestion(p, cat)
     /\ Below(cs.keyword_density, 7, 10) => HasSuggestion(p, "Keywords")
     /\ Below(cs.experience_details_present, 1, 1) => HasSuggestion(p, "Experience & Projects")
     /\ Below(cs.action_verbs, 7, 10) => HasSuggestion(p, "Experience & Projects")
     /\ Below(cs.quantifiable_results, 6, 10) => HasSuggestion(p, "Experience & Projects")
     /\ ~cs.date_consistency.consistent => HasSuggestion(p, "Grammar & Style")

LowBandText ==
  "This resume needs significant improvement for ATS compatibility. Focus on the suggestions provided in each category."
MiddleBandText(others) ==
  IF others
  THEN "Good start! This resume is reasonably ATS-friendly. Addressing the specific suggestions can make it much stronger."
  ELSE "Good structure and content! Generally ATS-friendly. Minor refinements could improve it further."
TopBandText(others) ==
  IF others
  THEN "Excellent score! Your resume aligns well with ATS best practices. Addressing the minor suggestions below will perfect it."
  ELSE "Excellent! Your resume follows ATS best practices effectively."
\* the Overall message of thread p is the one of the band of its final score
\* under the thresholds medium and good
OverallFollowsBands(p, medium, good) ==
  LET others == DOMAIN suggestions[p] # {"Overall"}
  IN suggestions[p]["Overall"]
       = << IF final_score[p] < medium THEN LowBandText
            ELSE IF final_score[p] < good THEN MiddleBandText(others)
            ELSE TopBandText(others) >>

\* C20, with the thresholds medium = 60 and good = 85: the Overall message
\* is the one of the low band for a score under 60, of the middle band for a
\* score from 60 to 84 and of the top band from 85 on.
C20_OverallBandsAtSixty ==
  \A p \in Threads : GeneratorReturned(p) => OverallFollowsBands(p, 60, 85)

\* C20, with the thresholds of the generator, medium = 65 and good = 85: the
\* Overall message is the one of the low band for a score under 65, of the
\* middle band for a score from 65 to 84 and of the top band from 85 on; in
\* the middle and in the top band the text differs with whether another
\* category holds a suggestion, the low band has one text.
C20_OverallBandsAtSixtyFive ==
  /\ MiddleBandText(TRUE) # MiddleBandText(FALSE)
  /\ TopBandText(TRUE) # TopBandText(FALSE)
  /\ \A p \in Threads : GeneratorReturned(p) => OverallFollowsBands(p, 65, 85)
\* a score from 60 to 64 has got the message of the low band
C20_Witness ==
  \E p \in Threads :
    /\ GeneratorReturned(p)
    /\ final_score[p] \in 60..64
    /\ suggestions[p]["Overall"] = <<LowBandText>>

\* the i-th blank-delimited token of the bullet, lower-cased and without its
\* trailing punctuation; the empty text when there is no such token
Token(desc, i) ==
  LET tokens == SplitWs(desc)
  IN IF i <= Len(tokens) THEN Join(RStrip(Lower(tokens[i]), TrailingPunct)) ELSE ""
\* the first token ends in ly and has more than 3 characters
IsLyWord(desc) ==
  LET tokens == SplitWs(desc)
      first == IF Len(tokens) > 0 THEN RStrip(Lower(tokens[1]), TrailingPunct) ELSE <<>>
  IN EndsWith(first, <<"l", "y">>) /\ Len(first) > 3
\* the bullet starts with an action verb, or with an adverb before one
StartsWithActionVerb(desc) ==
  \/ Token(desc, 1) \in action_verbs_set
  \/ /\ Token(desc, 1) \in common_adverbs \/ IsLyWord(desc)
     /\ Token(desc, 2) \in action_verbs_set

\* C21: a bullet is an action-verb hit exactly when its first
\* whitespace-delimited token, lower-cased and without trailing punctuation,
\* is in the action-verb set, or that token is a common adverb or an -ly
\* word of more than 3 characters and the second token is in the set.
C21_ActionVerbHitsByFirstTokens ==
  \A p \in Threads :
    ScorerReturned(p) =>
      LET bullets == AllBullets(processed_resume_data[p])
      IN criteria_scores[p].action_verbs.passed
           = Cardinality({i \in 1..Len(bullets) : StartsWithActionVerb(bullets[i])})

\* min(ratio / target, 1) * max for the ratio hits/total and the target
\* tnum/tden
ScaledToMax(hits, total, tnum, tden, max) ==
  IF hits * tden >= tnum * total THEN Whole(max)
  ELSE Rat(hits * tden * max, tnum * total)
\* the distinct strings among the extracted keywords and the skill names of
\* an input whose keywords and skills are sequences
KeywordUnion(data) ==
  LET keywords == ListOrEmpty(GetOr(data, "Extracted Keywords", PyList(<<>>)))
      skills == ListOrEmpty(GetOr(data, "Skills", PyList(<<>>)))
      Named(i) == IsDict(skills[i]) /\ IsStr(SkillName(skills[i]))
                  /\ Len(SkillName(skills[i]).s) > 0
  IN {Join(keywords[i].s) : i \in {j \in 1..Len(keywords) : IsStr(keywords[j])}}
     \cup {Join(SkillName(skills[i]).s) : i \in {j \in 1..Len(skills) : Named(j)}}
\* the Extracted Keywords of the input are a sequence, or there are none
KeywordsAreSequence(data) ==
  GetOr(data, "Extracted Keywords", PyList(<<>>)).k = "list"

\* C22: every ratio criterion scores min(ratio / target, 1) times its max:
\* keyword density with the number of distinct keywords and skill names over
\* 30 and max 15; with bullets, action verbs with hits over bullets, target
\* 0.8 and max 15, quantifiable results with the bullets holding a number,
\* target 0.35 and max 15, conciseness with the bullets of at most 170
\* characters, target 0.85 and max 10; the score is the max exactly when the
\* ratio reaches the target.
C22_RatioCriteriaScaleToMax ==
  \A p \in Threads :
    ScorerReturned(p) =>
      LET data == processed_resume_data[p]
          cs == criteria_scores[p]
          bullets == AllBullets(data)
          n == Len(bullets)
          hits == cs.action_verbs.passed
          numbered == Cardinality({i \in 1..n : number_pattern_search(bullets[i])})
          concise == Cardinality({i \in 1..n : Len(bullets[i]) <= 170})
          keywords == cs.keyword_density.passed
      IN /\ KeywordsAreSequence(data) => keywords = Cardinality(KeywordUnion(data))
         /\ cs.keyword_density.score = ScaledToMax(keywords, 30, 1, 1, 15)
         /\ cs.keyword_density.score = Whole(15) <=> keywords >= 30
         /\ n > 0 =>
              /\ cs.action_verbs.score = ScaledToMax(hits, n, 8, 10, 15)
              /\ cs.quantifiable_results.score = ScaledToMax(numbered, n, 35, 100, 15)
              /\ cs.bullet_conciseness.score = ScaledToMax(concise, n, 85, 100, 10)
              /\ cs.action_verbs.score = Whole(15) <=> 10 * hits >= 8 * n
              /\ cs.quantifiable_results.score = Whole(15) <=> 100 * numbered >= 35 * n
              /\ cs.bullet_conciseness.score = Whole(10) <=> 100 * concise >= 85 * n
\* two bullets, one of them an action-verb hit and one of them holding a
\* number: an action-verb score between 0 and the max, and a quantifiable
\* score at its cap
C22_Witness ==
  \E p \in Threads :
    /\ ScorerReturned(p)
    /\ criteria_scores[p].action_verbs.total_bullets = 2
    /\ criteria_scores[p].action_verbs.passed = 1
    /\ criteria_scores[p].quantifiable_results.passed = 1
    /\ criteria_scores[p].quantifiable_results.score = Whole(15)

\* C23: with bullets, the grammar score is max(0, 5 - 7.5 * passive/total
\* - 3.75 * filler/total), passive and filler being the numbers of bullets
\* with passive voice and with a filler phrase; it is never negative, and it
\* is 5 exactly when no bullet has passive voice or a filler phrase.
C23_GrammarScoreIsFlooredPenalty ==
  \A p \in Threads :
    ScorerReturned(p) =>
      LET bullets == AllBullets(processed_resume_data[p])
          n == Len(bullets)
          passive == Cardinality({i \in 1..n : passive_voice_pattern_search(bullets[i])})
          filler == Cardinality({i \in 1..n : filler_words_pattern_search(bullets[i])})
          score == criteria_scores[p].grammar_indicators.score
          \* 5 - 7.5 * passive / n - 3.75 * filler / n over the denominator 4 * n
          numerator == 20 * n - 30 * passive - 15 * filler
      IN /\ RLe(Whole(0), score)
         /\ n > 0 =>
              /\ score = IF numerator <= 0 THEN Whole(0) ELSE Rat(numerator, 4 * n)
              /\ score = Whole(5) <=> (passive = 0 /\ filler = 0)
\* one of two bullets has passive voice and the score is 1.25
C23_Witness ==
  \E p \in Threads :
    /\ ScorerReturned(p)
    /\ criteria_scores[p].grammar_indicators.total_bullets = 2
    /\ criteria_scores[p].grammar_indicators.passive_count = 1
    /\ criteria_scores[p].grammar_indicators.score = Rat(5, 4)

\* the least integer that is at least 100 times score/max clamped to [0, 1]
PercentOf(score, max) ==
  LET ratio == RDiv(score, max)
      clamped == IF RLt(ratio, Whole(0)) THEN Whole(0)
                 ELSE IF RLt(Whole(1), ratio) THEN Whole(1) ELSE ratio
      scaled == RMul(clamped, Whole(100))
  IN CHOOSE k \in 0..100 : RLe(scaled, Whole(k)) /\ RLt(Whole(k - 1), scaled)
\* the status and the color of a percentage
Bucket(percentage) ==
  IF percentage >= 80 THEN <<"Strong", "success">>
  ELSE IF percentage >= 60 THEN <<"Okay", "warning">>
  ELSE <<"Needs Improvement", "error">>
\* the scores and maxes the two helpers are sampled on: quarters from -1 to
\* 21 over the maxes 0, 5, 10 and 20
SampleScores == {Rat(k, 4) : k \in -4..84}
SampleMaxes == {Whole(0), Whole(5), Whole(10), Whole(20)}
\* the two helpers on one sample
HelpersFollowRule(score, max) ==
  IF max = Whole(0)
  THEN /\ calculate_percentage(score, max) = None
       /\ get_status_color_perc(score, max)[1] = None
  ELSE /\ calculate_percentage(score, max) = PyInt(PercentOf(score, max))
       /\ get_status_color_perc(score, max)
            = <<PyInt(PercentOf(score, max))>> \o Bucket(PercentOf(score, max))
\* the status and the color of the card are the bucket of the summed scores
\* of the items over their summed maxes
CardFollowsRule(card, items) ==
  <<card.status, card.color>>
    = Bucket(PercentOf(RSum([i \in 1..Len(items) |-> items[i].score]),
                       RSum([i \in 1..Len(items) |-> items[i].max])))

StatusesOf(sidebar, text) ==
  UNION {{sidebar.categories[c].sub_items[i].status :
            i \in {j \in 1..Len(sidebar.categories[c].sub_items) :
                     sidebar.categories[c].sub_items[j].text = text}} :
         c \in 1..Len(sidebar.categories)}
\* the sub-item with the text is there, and it is pass if the condition
\* holds and fail if not
TaggedBy(sidebar, text, condition) ==
  StatusesOf(sidebar, text) = {IF condition THEN "pass" ELSE "fail"}
\* the percentage of the score of the item over its max
ItemPercent(item) == PercentOf(item.score, item.max)

\* C25: in a response that is not degraded, Quantifying Impact is pass iff
\* the quantifiable-results percentage is at least 60, Spelling & Grammar iff
\* the grammar percentage is at least 80, Essential Sections iff the
\* section-completeness percentage is at least 90, Contact Information iff
\* the contact percentage is at least 80, Email Address iff a valid email was
\* found, Hyperlink in Header iff the link was found; each is fail
\* otherwise, never info.
C25_SidebarSubItemsFollowRules ==
  \A p \in Threads :
    (pc[p] = "return" /\ ~HasError(result[p])) =>
      LET cs == criteria_scores[p]
          data == processed_resume_data[p]
          sidebar == result[p].score_breakdown_for_sidebar
      IN /\ TaggedBy(sidebar, "Quantifying Impact", ItemPercent(cs.quantifiable_results) >= 60)
         /\ TaggedBy(sidebar, "Spelling & Grammar", ItemPercent(cs.grammar_indicators) >= 80)
         /\ TaggedBy(sidebar, "Essential Sections", ItemPercent(cs.section_completeness) >= 90)
         /\ TaggedBy(sidebar, "Contact Information", ItemPercent(cs.contact_info_quality) >= 80)
         /\ TaggedBy(sidebar, "Email Address", EmailHasShape(data))
         /\ TaggedBy(sidebar, "Hyperlink in Header", LinkIsFound(data))
\* five of the six sections are there, 84 percent, and Essential Sections is
\* fail, while Contact Information is pass without the link
C25_Witness ==
  \E p \in Threads :
    /\ pc[p] = "return"
    /\ ~HasError(result[p])
    /\ ItemPercent(criteria_scores[p].section_completeness) = 84
    /\ StatusesOf(result[p].score_breakdown_for_sidebar, "Essential Sections") = {"fail"}
    /\ StatusesOf(result[p].score_breakdown_for_sidebar, "Contact Information") = {"pass"}
    /\ StatusesOf(result[p].score_breakdown_for_sidebar, "Hyperlink in Header") = {"fail"}

\* the error structure: ats_score 0, a non-empty error, an empty breakdown and
\* empty report details
IsAiErrorStructure(r) ==
  /\ IsDict(r)
  /\ DOMAIN r.kv = {"ats_score", "error", "score_breakdown_for_sidebar", "report_details"}
  /\ r.kv["ats_score"] = PyInt(0)
  /\ IsStr(r.kv["error"]) /\ r.kv["error"].s # ""
  /\ r.kv["score_breakdown_for_sidebar"] = EmptyDict
  /\ r.kv["report_details"] = PyList(<<>>)
\* the value returned is what the provider gave, parsed, or the error structure
AiReturnsResultOrError ==
  ai_pc \in {"return", "done"} =>
    \/ ai_exc = Unset /\ ai_result \in {raw_output} \cup RepairOutcomes
    \/ ai_exc # Unset /\ IsAiErrorStructure(ai_result)

\* C26: get_ai_ats_score never raises to its caller: for every input record
\* and every outcome of the provider call it returns the parsed AI result or
\* the error structure.
C26_AiScoreNeverRaises ==
  /\ ai_pc # "raised"
  /\ AiReturnsResultOrError

\* the order in which the scorer assigns the criteria
CriterionOrder ==
  <<"section_completeness", "contact_info_quality", "profile_summary_quality",
    "keyword_density", "experience_details_present", "action_verbs",
    "quantifiable_results", "bullet_conciseness", "grammar_indicators",
    "date_consistency">>
\* the mapping after the first k criteria were assigned
AfterStep(cs, k) ==
  [c \in DOMAIN InitialCriteria |->
     IF \E i \in 1..k : CriterionOrder[i] = c THEN cs[c] ELSE InitialCriteria[c]]
WithinBounds(item) == RLe(Whole(0), item.score) /\ RLe(item.score, item.max)

\* C27: every criterion score is at least 0 and at most the max of its
\* criterion, for every input and after every step of the scorer.
C27_ScoresWithinBounds ==
  \A p \in Threads :
    ("section_completeness" \in DOMAIN criteria_scores[p]) =>
      \A k \in 0..Len(CriterionOrder) :
        \A c \in DOMAIN InitialCriteria :
          /\ WithinBounds(AfterStep(criteria_scores[p], k)[c])
          /\ AfterStep(criteria_scores[p], k)[c].max = InitialCriteria[c].max
\* more than the target of keywords: the score is the max, while another
\* criterion is strictly between 0 and its max
C27_Witness ==
  \E p \in Threads :
    /\ ScorerReturned(p)
    /\ criteria_scores[p].keyword_density.passed > target_keywords
    /\ criteria_scores[p].keyword_density.score = criteria_scores[p].keyword_density.max
    /\ \E c \in DOMAIN InitialCriteria :
         /\ RLt(Whole(0), criteria_scores[p][c].score)
         /\ RLt(criteria_scores[p][c].score, criteria_scores[p][c].max)

\* the call took the normal path: every stage returned and nothing was caught
NormalPath(p) ==
  /\ pc[p] = "return"
  /\ stages[p] = <<"scorer", "generator", "structurer">>
  /\ exc[p] = Unset

\* C28: ats_score is 0 exactly in the degraded responses, which carry the
\* error field; every normal-path response has ats_score > 0 and no error.
C28_ZeroScoreIffDegraded ==
  \A p \in Threads :
    pc[p] = "return" =>
      /\ (result[p].ats_score = 0) <=> HasError(result[p])
      /\ NormalPath(p) => (result[p].ats_score > 0 /\ ~HasError(result[p]))
      /\ ~NormalPath(p) => HasError(result[p])
\* the lowest normal-path score: dates in several formats, 2.5 points for
\* the one section, rounded to 2
C28_Witness ==
  \E p \in Threads :
    /\ NormalPath(p)
    /\ criteria_scores[p].date_consistency.score = Whole(0)
    /\ total_score(criteria_scores[p]) = Rat(5, 2)
    /\ result[p].ats_score = 2

\* no category other than Overall holds a suggestion
OnlyOverall(p) == DOMAIN suggestions[p] = {"Overall"}

\* C29: whenever no category other than Overall has a suggestion, the final
\* score is at least 85, so the Overall message of the middle band for a
\* resume without specific suggestions is never produced.
C29_NoSuggestionsOnlyInTopBand ==
  \A p \in Threads :
    GeneratorReturned(p) =>
      /\ OnlyOverall(p) => final_score[p] >= 85
      /\ suggestions[p]["Overall"] # <<MiddleBandText(FALSE)>>
\* a resume without specific suggestions, with the message of the top band
C29_Witness ==
  \E p \in Threads :
    /\ GeneratorReturned(p)
    /\ OnlyOverall(p)
    /\ final_score[p] < 90
    /\ suggestions[p]["Overall"] = <<TopBandText(FALSE)>>

\* the elements of a sequence
Range(seq) == {seq[i] : i \in 1..Len(seq)}
\* the ai_suggestions of the cards of the response that carry the title
AiSuggestionsOf(r, title) ==
  {r.report_details[i].ai_suggestions :
     i \in {j \in 1..Len(r.report_details) : r.report_details[j].title = title}}
\* the list of the generator for the category, empty when it left it out
GeneratorList(p, cat) ==
  IF cat \in DOMAIN suggestions[p] THEN suggestions[p][cat] ELSE <<>>
\* every text of the response: the suggestions and points of the cards and
\* the texts of the sub-items
ResponseTexts(r) ==
  UNION {Range(r.report_details[i].ai_suggestions) : i \in 1..Len(r.report_details)}
  \cup UNION {{pt.text : pt \in Range(r.report_details[i].points)} :
                i \in 1..Len(r.report_details)}
  \cup UNION {{si.text : si \in Range(r.score_breakdown_for_sidebar.categories[c].sub_items)} :
                c \in 1..Len(r.score_breakdown_for_sidebar.categories)}
UnshownCategories == {"Overall", "Structure & Sections", "Contact Info", "Education"}

\* C30: the ai_suggestions of the Summary, Work Experience, Skills and
\* Formatting & Style cards are exactly the generator's lists for Profile
\* Summary, Experience & Projects, Keywords and Grammar & Style, the empty
\* list for a category the generator left out; no suggestion of Overall,
\* Structure & Sections, Contact Info or Education is anywhere in the
\* response.
C30_CardsShowFourCategoriesOnly ==
  \A p \in Threads :
    (pc[p] = "return" /\ ~HasError(result[p])) =>
      /\ AiSuggestionsOf(result[p], "Summary") = {GeneratorList(p, "Profile Summary")}
      /\ AiSuggestionsOf(result[p], "Work Experience") = {GeneratorList(p, "Experience & Projects")}
      /\ AiSuggestionsOf(result[p], "Skills") = {GeneratorList(p, "Keywords")}
      /\ AiSuggestionsOf(result[p], "Formatting & Style") = {GeneratorList(p, "Grammar & Style")}
      /\ \A cat \in UnshownCategories :
           Range(GeneratorList(p, cat)) \cap ResponseTexts(result[p]) = {}
\* suggestions in a shown and in an unshown category, and none for the
\* keywords
C30_Witness ==
  \E p \in Threads :
    /\ pc[p] = "return"
    /\ ~HasError(result[p])
    /\ {"Education", "Grammar & Style"} \subseteq DOMAIN suggestions[p]
    /\ "Keywords" \notin DOMAIN suggestions[p]
    /\ AiSuggestionsOf(result[p], "Skills") = {<<>>}
    /\ AiSuggestionsOf(result[p], "Formatting & Style") # {<<>>}

====
